---- MODULE Spec2Model ----
(***************************************************************************)
(* Model of the hsafa gateway's event log, run stream, tool-result and     *)
(* agent-trigger code.                                                     *)
(*                                                                         *)
(* Every `await` of the TypeScript source is an interleaving point: one    *)
(* action models the code between two awaits of one handler.  Each         *)
(* subsystem has its own specification over the shared variables:          *)
(*   SpecMsg     createSmartSpaceMessage            (smartspace-db.ts)     *)
(*   SpecEmit    emitSmartSpaceEvent                (smartspace-events.ts) *)
(*   SpecStream  GET /runs/:runId/stream            (routes/runs.ts)       *)
(*   SpecCancel  POST /runs/:runId/cancel           (routes/runs.ts)       *)
(*   SpecTool    submitToolResult                   (tool-results.ts)      *)
(*   SpecTrigger triggerAgentsInSmartSpace          (agent-trigger.ts)     *)
(*   SpecDispatch the WebSocket client registry and                        *)
(*               dispatchToolCallToClient           (part_006)             *)
(*   SpecHook    useHsafaGateway startStream and                           *)
(*               attachToRun                        (useHsafaGateway.ts)   *)
(*   SpecResume  submitToolResult against the run's                        *)
(*               lifecycle and its cancellation     (tool-results.ts)      *)
(*   SpecApi     the auth middleware in front of                           *)
(*               the /runs/:runId routes            (part_003, runs.ts)    *)
(*   SpecStreamFault  the stream handler with its                          *)
(*               awaits failing                     (routes/runs.ts)       *)
(*   SpecAgents  POST /agents and sortKeysDeep      (routes/entities.ts)   *)
(*   SpecStreamLife  one stream connection's life,                         *)
(*               with the keep-alive timer          (routes/runs.ts)       *)
(*   SpecReconnect  startStream's reconnection      (useHsafaGateway.ts)   *)
(*   SpecAttach  attachToRun and processEvent                              *)
(*               across runs                        (useHsafaGateway.ts)   *)
(* The run runner and the run event emitter (run-runner.ts, run-events.ts) *)
(* and validateAgentConfig (agent-builder/parser.js) are modelled from the *)
(* design document.                                                        *)
(***************************************************************************)
EXTENDS Integers, Sequences, FiniteSets, TLC

VARIABLES
    messages,     \* SmartSpaceMessage rows, in commit order
    tx,           \* createSmartSpaceMessage calls: position and locals
    seqCounter,   \* redis key smartSpace:<id>:seq
    spaceStream,  \* redis stream smartSpace:<id>:stream: payload seq and type
    notifyLog,    \* messages published on smartSpace:<id>:notify
    emit,         \* emitSmartSpaceEvent calls: position and locals
    runStream,    \* redis stream run:<id>:stream: the event types, id = index
    pubPending,   \* run events appended whose notification is not yet published
    conn,         \* GET /runs/:runId/stream connections
    run,          \* the Run row: status and completedAt
    now,          \* the clock behind new Date()
    cancel,       \* POST /runs/:runId/cancel requests: position and response
    toolCalls,    \* ToolCall rows of the run, by callId
    toolResults,  \* ToolResult rows
    sub,          \* submitToolResult calls: position, input and locals
    lastSub,      \* history: the input of the latest upsert per callId
    subCalls,     \* submitToolResult calls entered so far
    execLog,      \* history: the executeRun invocations, by the call that caused them
    posted,       \* whether the original message of the cascade was posted, and by whom
    inbox,        \* messages posted whose triggerAgentsInSmartSpace call is not entered yet
    trig,         \* triggerAgentsInSmartSpace calls: position and locals
    runs,         \* Run rows created by triggerAgentsInSmartSpace
    skipped,      \* history: trigger calls that returned [] at the depth guard
    socks,        \* WebSocket connections: state, clientConnection, handler position
    clientConnections, \* the registry Map: clientId -> socket
    clients,      \* Client rows, by id
    presence,     \* redis keys client:<id>:presence
    wsOut,        \* what ws.send put on each socket
    clientInbox,  \* redis streams client:<id>:inbox
    dsp,          \* the dispatchToolCallToClient call: position and locals
    regCalls,     \* client.register and ping messages handled so far
    hook,         \* useHsafaGateway: the EventSource, the refs and attachToRun's position
    processed,    \* history: the ids of the events passed to processEvent
    evTs,         \* the ts of the run's events, by id
    req,          \* an HTTP request to a /api/runs/:runId route: headers, req.auth, response
    fault,        \* per stream connection: the error it ran into and where that error went
    agents,       \* Agent rows
    post,         \* POST /api/agents requests: position, input, locals and response
    sse,          \* useHsafaGateway: attachedRunIdRef, the EventSource and the reconnect refs
    view,         \* useHsafaGateway: messages, the draft and hydration refs, tool executions
    att,          \* attachToRun calls, by run: position
    srv           \* per run: how many events of its script the gateway has emitted

varsMsg == <<messages, tx>>
varsEmit == <<seqCounter, spaceStream, notifyLog, emit>>
varsStream == <<runStream, pubPending, conn>>
varsCancel == <<run, now, cancel>>
varsTool == <<toolCalls, toolResults, sub, lastSub, subCalls, execLog>>
varsTrigger == <<posted, inbox, trig, runs, skipped>>
varsHook == <<hook, processed, evTs>>
varsApi == <<req>>
varsFault == <<fault>>
varsAgents == <<agents, post>>
varsClient == <<sse, view, att, srv>>
varsDispatch == <<socks, clientConnections, clients, presence, wsOut, clientInbox, dsp,
                  regCalls>>
vars == <<messages, tx, seqCounter, spaceStream, notifyLog, emit,
          runStream, pubPending, conn, run, now, cancel,
          toolCalls, toolResults, sub, lastSub, subCalls, execLog,
          posted, inbox, trig, runs, skipped,
          socks, clientConnections, clients, presence, wsOut, clientInbox, dsp, regCalls,
          hook, processed, evTs, req, fault, agents, post, sse, view, att, srv>>

\* what the actions of one subsystem leave alone
othersMsg == <<varsEmit, varsStream, varsCancel, varsTool, varsTrigger, varsDispatch, varsHook, varsApi,
    varsFault, varsAgents, varsClient>>
othersEmit == <<varsMsg, varsStream, varsCancel, varsTool, varsTrigger, varsDispatch, varsHook, varsApi,
    varsFault, varsAgents, varsClient>>
othersStream == <<varsMsg, varsEmit, varsCancel, varsTool, varsTrigger, varsDispatch, varsHook, varsApi,
    varsFault, varsAgents, varsClient>>
othersCancel == <<varsMsg, varsEmit, pubPending, varsTool, varsTrigger, varsDispatch, varsHook, varsApi,
    varsFault, varsAgents, varsClient>>
othersTool == <<tx, emit, pubPending, varsCancel, varsTrigger, varsDispatch, varsHook, varsApi,
    varsFault, varsAgents, varsClient>>
othersTrigger == <<varsMsg, emit, varsStream, varsCancel, varsTool, varsDispatch, varsHook, varsApi,
    varsFault, varsAgents, varsClient>>
othersDispatch == <<varsMsg, varsEmit, varsStream, run, cancel, varsTool, varsTrigger,
                    varsHook, varsApi,
    varsFault, varsAgents, varsClient>>
othersFault == <<varsMsg, varsEmit, varsCancel, varsTool, varsTrigger, varsDispatch, varsHook,
                 varsApi, varsAgents, varsClient>>
othersAgents == <<varsMsg, varsEmit, varsStream, varsCancel, varsTool, varsTrigger,
                  varsDispatch, varsHook, varsApi, varsFault, varsClient>>
othersApi == <<varsMsg, varsEmit, varsStream, varsCancel, varsTool, varsTrigger, varsDispatch,
               varsHook,
    varsFault, varsAgents, varsClient>>
othersHook == <<varsMsg, varsEmit, run, cancel, varsTool, varsTrigger, varsDispatch, varsApi,
    varsFault, varsAgents, varsClient>>
othersClient == <<varsMsg, varsEmit, varsStream, varsCancel, varsTool, varsTrigger, varsDispatch,
                  varsHook, varsApi, varsFault, varsAgents>>

----------------------------------------------------------------------------
(* Bounds *)

MaxCallers == 3
MaxEmitters == 3
MaxConns == 2
MaxKeepAlives == 2
MaxAttaches == 2
MaxEvents == 2
MaxReconnects == 1
MaxCancels == 2
MaxToolRounds == 1
MaxSubmitCalls == 2
MaxRegCalls == 3
MaxHookReconnects == 1

Spaces == {"s1", "s2"}
Entities == {"H", "A", "B"}
Null == "null"

Callers == 1..MaxCallers
Emitters == 1..MaxEmitters
Conns == 1..MaxConns
Cancels == 1..MaxCancels
\* the submitToolResult calls that can be in flight together
Subs == {"u1", "u2"}

----------------------------------------------------------------------------
(* Helpers *)

Range(s) == {s[i] : i \in 1..Len(s)}

Max(S) == CHOOSE x \in S : \A y \in S : y <= x

\* the ids a..b as a sequence (empty when a > b)
Ids(a, b) == [i \in 1..(IF b >= a THEN b - a + 1 ELSE 0) |-> a + i - 1]

----------------------------------------------------------------------------
(* createSmartSpaceMessage: smartspace-db.ts *)

\* the seq values stored for one SmartSpace
SpaceSeqs(space) == {m.seq : m \in {r \in Range(messages) : r.smartSpaceId = space}}

\* findFirst({where: {smartSpaceId}, orderBy: {seq: 'desc'}}) ?.seq ?? 0n
LastSeq(space) == IF SpaceSeqs(space) = {} THEN 0 ELSE Max(SpaceSeqs(space))

NextSeqSkip(last) == last + 2

\* const nextSeq = (last?.seq ?? 0n) + 1n
NextSeq(last) == last + 1

\* the store's unique index on (smartSpaceId, seq)
UniqueViolation(space, seq) == seq \in SpaceSeqs(space)

MsgInit ==
    /\ messages = <<>>
    /\ tx = [c \in Callers |-> [pc |-> "idle", space |-> Null, entity |-> Null, nextSeq |-> 0]]

\* prisma.$transaction(async (tx) => ...) is entered
TxBegin(c, space, entity) ==
    /\ tx[c].pc = "idle"
    /\ tx' = [tx EXCEPT ![c] = [pc |-> "find", space |-> space, entity |-> entity, nextSeq |-> 0]]
    /\ UNCHANGED <<messages, othersMsg>>

\* tx.smartSpaceMessage.findFirst sees the rows committed so far
TxFindFirst(c) ==
    /\ tx[c].pc = "find"
    /\ tx' = [tx EXCEPT ![c].pc = "create", ![c].nextSeq = NextSeq(LastSeq(tx[c].space))]
    /\ UNCHANGED <<messages, othersMsg>>

\* tx.smartSpaceMessage.create and the commit
TxCreate(c) ==
    /\ tx[c].pc = "create"
    /\ ~UniqueViolation(tx[c].space, tx[c].nextSeq)
    /\ messages' = Append(messages, [smartSpaceId |-> tx[c].space, seq |-> tx[c].nextSeq,
                                     entityId |-> tx[c].entity, by |-> c])
    /\ tx' = [tx EXCEPT ![c].pc = "done"]
    /\ UNCHANGED othersMsg

\* the insert hits the unique index: the transaction rolls back and the
\* call rejects
TxConflict(c) ==
    /\ tx[c].pc = "create"
    /\ UniqueViolation(tx[c].space, tx[c].nextSeq)
    /\ tx' = [tx EXCEPT ![c].pc = "failed"]
    /\ UNCHANGED <<messages, othersMsg>>

NextMsg ==
    \/ \E c \in Callers, s \in Spaces, e \in Entities : TxBegin(c, s, e)
    \/ \E c \in Callers : TxFindFirst(c)
    \/ \E c \in Callers : TxCreate(c)
    \/ \E c \in Callers : TxConflict(c)

----------------------------------------------------------------------------
(* emitSmartSpaceEvent: smartspace-events.ts *)

EmitInit ==
    /\ seqCounter = [s \in Spaces |-> 0]
    /\ spaceStream = [s \in Spaces |-> <<>>]
    /\ notifyLog = [s \in Spaces |-> <<>>]
    /\ emit = [e \in Emitters |-> [pc |-> "idle", space |-> Null, seq |-> 0]]

\* the redis keys of a SmartSpace: `smartSpace:${smartSpaceId}:seq`,
\* `smartSpace:${smartSpaceId}:stream` and `smartSpace:${smartSpaceId}:notify`
\* are one key each per id, so a key is named by the id it holds
SeqKeyShared(smartSpaceId) == "s1"
SeqKey(smartSpaceId) == smartSpaceId
StreamKey(smartSpaceId) == smartSpaceId
NotifyChannel(smartSpaceId) == smartSpaceId

\* const seq = await redis.incr(seqKey)
EmitIncr(e, space, type) ==
    /\ emit[e].pc = "idle"
    /\ seqCounter' = [seqCounter EXCEPT ![SeqKey(space)] = @ + 1]
    /\ emit' = [emit EXCEPT ![e] = [pc |-> "xadd", space |-> space, type |-> type,
                                    seq |-> seqCounter[SeqKey(space)] + 1]]
    /\ UNCHANGED <<spaceStream, notifyLog, othersEmit>>

\* const id = await redis.xadd(streamKey, '*', ...) succeeds
EmitXAdd(e) ==
    /\ emit[e].pc = "xadd"
    /\ spaceStream' = [spaceStream EXCEPT ![StreamKey(emit[e].space)] =
                                      Append(@, [seq |-> emit[e].seq, type |-> emit[e].type])]
    /\ emit' = [emit EXCEPT ![e].pc = "publish"]
    /\ UNCHANGED <<seqCounter, notifyLog, othersEmit>>

\* redis.xadd rejects, or returns no id and the function throws
EmitXAddFail(e) ==
    /\ emit[e].pc = "xadd"
    /\ emit' = [emit EXCEPT ![e].pc = "failed"]
    /\ UNCHANGED <<seqCounter, spaceStream, notifyLog, othersEmit>>

\* await redis.publish(notifyChannel, ...); return { id, seq, ts }
EmitPublish(e) ==
    /\ emit[e].pc = "publish"
    /\ notifyLog' = [notifyLog EXCEPT ![NotifyChannel(emit[e].space)] =
                                    Append(@, [seq |-> emit[e].seq, type |-> emit[e].type])]
    /\ emit' = [emit EXCEPT ![e].pc = "done"]
    /\ UNCHANGED <<seqCounter, spaceStream, othersEmit>>

\* redis.publish rejects: the await throws out of emitSmartSpaceEvent
EmitPublishFail(e) ==
    /\ emit[e].pc = "publish"
    /\ emit' = [emit EXCEPT ![e].pc = "failed"]
    /\ UNCHANGED <<seqCounter, spaceStream, notifyLog, othersEmit>>

NextEmit ==
    \/ \E e \in Emitters, s \in Spaces : EmitIncr(e, s, "smartSpace.message")
    \/ \E e \in Emitters : EmitXAdd(e)
    \/ \E e \in Emitters : EmitXAddFail(e)
    \/ \E e \in Emitters : EmitPublish(e)
    \/ \E e \in Emitters : EmitPublishFail(e)

----------------------------------------------------------------------------
(* GET /runs/:runId/stream: routes/runs.ts *)

\* startId '$': no since and no Last-Event-ID
Dollar == -1
\* an xread that redis has not answered yet
Pending == -2

StreamInit ==
    /\ runStream = <<>>
    /\ pubPending = 0
    /\ conn = [c \in Conns |->
                 [pc |-> "none", open |-> FALSE, isActive |-> FALSE, startId |-> Dollar,
                  lastSeenId |-> 0, startPoint |-> 0, subscribed |-> FALSE, notif |-> 0,
                  reads |-> <<>>, replayTo |-> 0, written |-> <<>>, resumed |-> FALSE,
                  gen |-> 0, interval |-> FALSE, keepAlives |-> 0]]

\* the run's emitEvent appends to run:<id>:stream ...
RunXAdd(type) ==
    /\ Len(runStream) < MaxEvents
    /\ runStream' = Append(runStream, type)
    /\ pubPending' = pubPending + 1
    /\ UNCHANGED <<conn, othersStream>>

\* ... and then publishes on run:<id>:notify: every subscriber whose
\* subscription is active gets a 'message' event
RunPublish ==
    /\ pubPending > 0
    /\ pubPending' = pubPending - 1
    /\ conn' = [c \in Conns |->
                  IF conn[c].subscribed THEN [conn[c] EXCEPT !.notif = @ + 1] ELSE conn[c]]
    /\ UNCHANGED <<runStream, othersStream>>

\* const startId = since || lastEventId || '$'
StartId(since, lastEventId) ==
    IF since # Dollar THEN since ELSE IF lastEventId # Dollar THEN lastEventId ELSE Dollar

\* the handler is entered: headers flushed, isActive = true, the first
\* close listener registered
OpenConn(c, since, lastEventId, resumed) ==
    [pc |-> "findRun", open |-> TRUE, isActive |-> TRUE,
     startId |-> StartId(since, lastEventId),
     lastSeenId |-> StartId(since, lastEventId), startPoint |-> 0,
     subscribed |-> FALSE, notif |-> 0, reads |-> <<>>, replayTo |-> 0,
     written |-> <<>>, resumed |-> resumed,
     gen |-> IF resumed THEN conn[c].gen + 1 ELSE 0,
     interval |-> FALSE, keepAlives |-> 0]

StreamOpen(c, since, lastEventId, resumed) ==
    /\ conn' = [conn EXCEPT ![c] = OpenConn(c, since, lastEventId, resumed)]
    /\ UNCHANGED <<runStream, pubPending, othersStream>>

\* a first request: no cursor, or an explicit since
StreamConnect(c) ==
    /\ conn[c].pc = "none"
    /\ \E since \in {Dollar, 0} : StreamOpen(c, since, Dollar, FALSE)

\* the client reconnects with the id of the last event it received, as
\* ?since= or as the Last-Event-ID header
StreamReconnect(c) ==
    /\ conn[c].pc = "ended"
    /\ conn[c].written # <<>>
    /\ conn[c].gen < MaxReconnects
    /\ LET k == conn[c].written[Len(conn[c].written)]
       IN \/ StreamOpen(c, k, Dollar, TRUE)
          \/ StreamOpen(c, Dollar, k, TRUE)

\* await prisma.run.findUnique; res.write(': Connected ...')
StreamFindRun(c) ==
    /\ conn[c].pc = "findRun"
    /\ conn' = [conn EXCEPT ![c].pc = IF conn[c].startId = Dollar THEN "tail" ELSE "replayRead"]
    /\ UNCHANGED <<runStream, pubPending, othersStream>>

\* startId === '$': lastSeenId = id of the last entry (xrevrange COUNT 1),
\* or '0-0' for an empty stream
StreamTail(c) ==
    /\ conn[c].pc = "tail"
    /\ conn' = [conn EXCEPT ![c].pc = "subscribe",
                            ![c].lastSeenId = Len(runStream),
                            ![c].startPoint = Len(runStream)]
    /\ UNCHANGED <<runStream, pubPending, othersStream>>

\* existingEvents = await redis.xread('STREAMS', streamKey, startId)
StreamReplayRead(c) ==
    /\ conn[c].pc = "replayRead"
    /\ conn' = [conn EXCEPT ![c].pc = "replayWrite",
                            ![c].replayTo = Len(runStream),
                            ![c].startPoint = conn[c].startId]
    /\ UNCHANGED <<runStream, pubPending, othersStream>>

\* what one pass over an xread reply writes: nothing once isActive is false
Written(active, from, to) == IF active THEN Ids(from + 1, to) ELSE <<>>

\* lastSeenId after one pass over an xread reply
SeenAfter(active, last, from, to) == IF active /\ to > from THEN to ELSE last

\* the replay loop: write every existing event, lastSeenId = id
StreamReplayWrite(c) ==
    /\ conn[c].pc = "replayWrite"
    /\ conn' = [conn EXCEPT
                  ![c].pc = "subscribe",
                  ![c].written = @ \o Written(conn[c].isActive, conn[c].startId, conn[c].replayTo),
                  ![c].lastSeenId = SeenAfter(conn[c].isActive, @, conn[c].startId, conn[c].replayTo)]
    /\ UNCHANGED <<runStream, pubPending, othersStream>>

\* subscriber.on('message', ...) is registered and
\* await subscriber.subscribe(notifyChannel) takes effect at redis
StreamSubscribe(c) ==
    /\ conn[c].pc = "subscribe"
    /\ conn' = [conn EXCEPT ![c].pc = "arm", ![c].subscribed = TRUE]
    /\ UNCHANGED <<runStream, pubPending, othersStream>>

\* the subscribe resolves: the keep-alive interval and the second close
\* listener are set up
StreamArm(c) ==
    /\ conn[c].pc = "arm"
    /\ conn' = [conn EXCEPT ![c].pc = "live", ![c].interval = TRUE]
    /\ UNCHANGED <<runStream, pubPending, othersStream>>

\* a 'message' event: return when not active, else issue
\* redis.xread('STREAMS', streamKey, lastSeenId) and await it
StreamOnMessage(c) ==
    /\ conn[c].notif > 0
    /\ conn' = [conn EXCEPT
                  ![c].notif = @ - 1,
                  ![c].reads = IF conn[c].isActive
                               THEN Append(@, [from |-> conn[c].lastSeenId, to |-> Pending])
                               ELSE @]
    /\ UNCHANGED <<runStream, pubPending, othersStream>>

\* redis executes the oldest unanswered xread of the shared connection
StreamXRead(c) ==
    /\ \E i \in 1..Len(conn[c].reads) :
          /\ conn[c].reads[i].to = Pending
          /\ \A j \in 1..(i - 1) : conn[c].reads[j].to # Pending
          /\ conn' = [conn EXCEPT ![c].reads[i].to = Len(runStream)]
    /\ UNCHANGED <<runStream, pubPending, othersStream>>

\* the reply arrives and the handler's loop writes it: lastSeenId = id
StreamReadReturn(c) ==
    /\ conn[c].reads # <<>>
    /\ LET r == Head(conn[c].reads)
       IN /\ r.to # Pending
          /\ conn' = [conn EXCEPT
                        ![c].reads = Tail(@),
                        ![c].written = @ \o Written(conn[c].isActive, r.from, r.to),
                        ![c].lastSeenId = SeenAfter(conn[c].isActive, @, r.from, r.to)]
    /\ UNCHANGED <<runStream, pubPending, othersStream>>

KeepAliveWriteAlways(active, n) == n + 1

\* if (isActive) res.write(': keepalive\n\n')
KeepAliveWrite(active, n) == IF active THEN n + 1 ELSE n

\* keepAliveInterval fires, every 30000 ms from the moment it is set: it
\* writes a keep-alive when isActive, else it clears itself
StreamKeepAlive(c) ==
    /\ conn[c].interval
    /\ conn[c].isActive => conn[c].keepAlives < MaxKeepAlives
    /\ conn' = [conn EXCEPT ![c].keepAlives = KeepAliveWrite(conn[c].isActive, @),
                            ![c].interval = conn[c].isActive]
    /\ UNCHANGED <<runStream, pubPending, othersStream>>

\* req 'close': isActive = false; the second listener, when it is
\* registered already, clears the interval, unsubscribes and quits the
\* subscriber
StreamClose(c) ==
    /\ conn[c].open
    /\ conn' = [conn EXCEPT
                  ![c].open = FALSE,
                  ![c].isActive = FALSE,
                  ![c].interval = IF conn[c].pc = "live" THEN FALSE ELSE @,
                  ![c].subscribed = IF conn[c].pc = "live" THEN FALSE ELSE @,
                  ![c].pc = IF conn[c].pc = "live" THEN "ended" ELSE @]
    /\ UNCHANGED <<runStream, pubPending, othersStream>>

\* the connection is cut under the handler: isActive = false, and nothing
\* is read or written for it any more
Dropped(cn) == [cn EXCEPT !.pc = "ended", !.open = FALSE, !.isActive = FALSE, !.reads = <<>>,
                          !.notif = 0, !.interval = FALSE]

\* an await inside the handler's try block rejects (prisma.run.findUnique,
\* redis.xrevrange, the replay's redis.xread, subscriber.subscribe): the
\* catch writes an error event and ends the response
StreamSetupFail(c) ==
    /\ conn[c].open /\ fault[c] = "none"
    /\ conn[c].pc \in {"findRun", "tail", "replayRead", "subscribe"}
    /\ conn' = [conn EXCEPT ![c] = Dropped(conn[c])]
    /\ fault' = [fault EXCEPT ![c] = "error event"]
    /\ UNCHANGED <<runStream, pubPending, othersFault>>

\* the redis.xread awaited inside the async 'message' listener rejects. The
\* listener's promise is returned to the event emitter, which drops it: no
\* catch runs. What an unhandled rejection does is the runtime's choice:
\* "exit" ends the process and with it every connection, "warn" logs and
\* goes on, the connection staying open without the events of that read.
StreamReadFail(c, outcome) ==
    /\ conn[c].open /\ fault[c] = "none"
    /\ \E i \in 1..Len(conn[c].reads) :
          /\ conn[c].reads[i].to = Pending
          /\ \A j \in 1..(i - 1) : conn[c].reads[j].to # Pending
          /\ IF outcome = "exit"
             THEN conn' = [d \in Conns |->
                             IF conn[d].open THEN [Dropped(conn[d]) EXCEPT !.subscribed = FALSE]
                                             ELSE conn[d]]
             ELSE conn' = [conn EXCEPT ![c].reads = SubSeq(@, 1, i - 1) \o
                                                    SubSeq(@, i + 1, Len(@))]
    /\ fault' = [fault EXCEPT ![c] = "unhandled rejection"]
    /\ UNCHANGED <<runStream, pubPending, othersFault>>

FaultInit == fault = [c \in Conns |-> "none"]

NextStream ==
    \/ \E t \in {"text.delta"} : RunXAdd(t)
    \/ RunPublish
    \/ \E c \in Conns : StreamConnect(c)
    \/ \E c \in Conns : StreamReconnect(c)
    \/ \E c \in Conns : StreamFindRun(c)
    \/ \E c \in Conns : StreamTail(c)
    \/ \E c \in Conns : StreamReplayRead(c)
    \/ \E c \in Conns : StreamReplayWrite(c)
    \/ \E c \in Conns : StreamSubscribe(c)
    \/ \E c \in Conns : StreamArm(c)
    \/ \E c \in Conns : StreamOnMessage(c)
    \/ \E c \in Conns : StreamXRead(c)
    \/ \E c \in Conns : StreamReadReturn(c)
    \/ \E c \in Conns : StreamClose(c)

\* the stream handler with its awaits failing, without reconnections
NextStreamFault ==
    \/ \E t \in {"text.delta"} : RunXAdd(t)
    \/ RunPublish
    \/ \E c \in Conns : StreamConnect(c)
    \/ \E c \in Conns : StreamFindRun(c)
    \/ \E c \in Conns : StreamTail(c)
    \/ \E c \in Conns : StreamReplayRead(c)
    \/ \E c \in Conns : StreamReplayWrite(c)
    \/ \E c \in Conns : StreamSubscribe(c)
    \/ \E c \in Conns : StreamArm(c)
    \/ \E c \in Conns : StreamOnMessage(c)
    \/ \E c \in Conns : StreamXRead(c)
    \/ \E c \in Conns : StreamReadReturn(c)
    \/ \E c \in Conns : StreamClose(c)
    \/ \E c \in Conns : StreamSetupFail(c)
    \/ \E c \in Conns, outcome \in {"exit", "warn"} : StreamReadFail(c, outcome)

----------------------------------------------------------------------------
(* The run state machine (spec section 4.4) and                           *)
(* POST /runs/:runId/cancel: routes/runs.ts                                *)

RunStatus == {"queued", "running", "waiting_tool", "completed", "failed", "canceled"}
Terminal == {"completed", "failed", "canceled"}

\* emitEvent of createEmitEvent(runId): append to the run's stream and
\* notify the subscribers whose subscription is active
EmitRunEvent(type) ==
    /\ runStream' = Append(runStream, type)
    /\ conn' = [c \in Conns |->
                  IF conn[c].subscribed THEN [conn[c] EXCEPT !.notif = @ + 1] ELSE conn[c]]

CancelInit ==
    /\ run = [status |-> "queued", completedAt |-> 0, rounds |-> 0]
    /\ now = 1
    /\ cancel = [k \in Cancels |-> [pc |-> "idle", resp |-> Null]]

\* queued -> running
RunStart ==
    /\ run.status = "queued"
    /\ run' = [run EXCEPT !.status = "running"]
    /\ EmitRunEvent("run.started")
    /\ UNCHANGED <<now, cancel, othersCancel>>

\* running -> waiting_tool: a tool call with a non-local target is outstanding
RunWaitTool ==
    /\ run.status = "running"
    /\ run.rounds < MaxToolRounds
    /\ run' = [run EXCEPT !.status = "waiting_tool", !.rounds = @ + 1]
    /\ EmitRunEvent("run.waiting_tool")
    /\ UNCHANGED <<now, cancel, othersCancel>>

\* waiting_tool -> running: the result arrived
RunResume ==
    /\ run.status = "waiting_tool"
    /\ run' = [run EXCEPT !.status = "running"]
    /\ EmitRunEvent("run.started")
    /\ UNCHANGED <<now, cancel, othersCancel>>

\* running -> completed
RunComplete ==
    /\ run.status = "running"
    /\ run' = [run EXCEPT !.status = "completed", !.completedAt = now]
    /\ now' = now + 1
    /\ EmitRunEvent("run.completed")
    /\ UNCHANGED <<cancel, othersCancel>>

\* running / waiting_tool -> failed
RunFail ==
    /\ run.status \in {"running", "waiting_tool"}
    /\ run' = [run EXCEPT !.status = "failed", !.completedAt = now]
    /\ now' = now + 1
    /\ EmitRunEvent("run.failed")
    /\ UNCHANGED <<cancel, othersCancel>>

AlreadyTerminalNoFailed(status) == status = "completed" \/ status = "canceled"

\* run.status === 'completed' || run.status === 'failed' || run.status === 'canceled'
AlreadyTerminal(status) == status = "completed" \/ status = "failed" \/ status = "canceled"

\* const run = await prisma.run.findUnique(...); a terminal run is answered
\* at once with { success: true, status: run.status }
CancelFind(k) ==
    /\ cancel[k].pc = "idle"
    /\ cancel' = [cancel EXCEPT ![k] =
                    IF AlreadyTerminal(run.status)
                    THEN [pc |-> "done", resp |-> [success |-> TRUE, status |-> run.status]]
                    ELSE [pc |-> "update", resp |-> Null]]
    /\ UNCHANGED <<run, now, runStream, conn, othersCancel>>

\* await prisma.run.update({ where: { id }, data: { status: 'canceled',
\* completedAt: new Date() } })
CancelUpdate(k) ==
    /\ cancel[k].pc = "update"
    /\ run' = [run EXCEPT !.status = "canceled", !.completedAt = now]
    /\ now' = now + 1
    /\ cancel' = [cancel EXCEPT ![k].pc = "emit"]
    /\ UNCHANGED <<runStream, conn, othersCancel>>

\* createEmitEvent; await emitEvent('run.canceled', ...); res.json(...)
CancelEmit(k) ==
    /\ cancel[k].pc = "emit"
    /\ EmitRunEvent("run.canceled")
    /\ cancel' = [cancel EXCEPT ![k] =
                    [pc |-> "done", resp |-> [success |-> TRUE, status |-> "canceled"]]]
    /\ UNCHANGED <<run, now, othersCancel>>

NextCancel ==
    \/ RunStart
    \/ RunWaitTool
    \/ RunResume
    \/ RunComplete
    \/ RunFail
    \/ \E k \in Cancels : CancelFind(k)
    \/ \E k \in Cancels : CancelUpdate(k)
    \/ \E k \in Cancels : CancelEmit(k)

----------------------------------------------------------------------------
(* submitToolResult: tool-results.ts *)

\* the run the tool calls belong to, and an id no Run row has
RunIds == {"r1", "r0"}
RunExists(runId) == runId = "r1"
RunSpace == "s1"
RunAgentEntity == "A"
RunTriggeredBy == "H"

\* t1 runs on a client, t2 on the server; no ToolCall row has callId t3
CallIds == {"t1", "t2", "t3"}
Results == {Null, "ok"}
Sources == {Null, "client"}
ClientIds == {Null, "k1"}

\* prisma.client.findUnique({ where: { id } })?.entityId
ClientEntity(clientId) == IF clientId = "k1" THEN "B" ELSE Null

\* a call that has returned or thrown keeps none of its locals
SubEnded(pc) == [pc |-> pc, runId |-> Null, callId |-> Null, result |-> Null,
                 source |-> Null, clientId |-> Null, target |-> Null, error |-> Null]

\* a call that has thrown: the error its caller sees
SubThrew(error) == [SubEnded("failed") EXCEPT !.error = error]

ToolInit ==
    /\ toolCalls = [t \in CallIds |->
                      IF t = "t1" THEN [exists |-> TRUE, status |-> "dispatched", target |-> "client"]
                      ELSE IF t = "t2" THEN [exists |-> TRUE, status |-> "requested", target |-> "server"]
                      ELSE [exists |-> FALSE, status |-> Null, target |-> Null]]
    /\ toolResults = <<>>
    /\ sub = [u \in Subs |-> SubEnded("idle")]
    /\ lastSub = [t \in CallIds |->
                    [any |-> FALSE, result |-> Null, source |-> Null, clientId |-> Null]]
    /\ subCalls = 0
    /\ execLog = <<>>

\* createSmartSpaceMessage run to its commit without a concurrent writer
CreateMessage(space, entity) ==
    messages' = Append(messages, [smartSpaceId |-> space, seq |-> NextSeq(LastSeq(space)),
                                  entityId |-> entity, by |-> 0])

\* emitSmartSpaceEvent run to its return: incr, xadd, publish
EmitSpaceEvent(space, type) ==
    /\ seqCounter' = [seqCounter EXCEPT ![SeqKey(space)] = @ + 1]
    /\ spaceStream' = [spaceStream EXCEPT ![StreamKey(space)] =
                         Append(@, [seq |-> seqCounter[SeqKey(space)] + 1, type |-> type])]
    /\ notifyLog' = [notifyLog EXCEPT ![NotifyChannel(space)] =
                       Append(@, [seq |-> seqCounter[SeqKey(space)] + 1, type |-> type])]

\* emitSmartSpaceEvent throws: at the incr, at the xadd (the counter is
\* advanced already) or at the publish (the event is in the stream already)
EmitSpaceEventFail(space, type, at) ==
    /\ seqCounter' = IF at = "incr" THEN seqCounter
                     ELSE [seqCounter EXCEPT ![SeqKey(space)] = @ + 1]
    /\ spaceStream' = IF at = "publish"
                      THEN [spaceStream EXCEPT ![StreamKey(space)] =
                              Append(@, [seq |-> seqCounter[SeqKey(space)] + 1, type |-> type])]
                      ELSE spaceStream
    /\ UNCHANGED notifyLog

\* const source = input.source ?? (input.clientId ? 'client' : 'server')
EffectiveSource(source, clientId) ==
    IF source # Null THEN source ELSE IF clientId # Null THEN "client" ELSE "server"

\* (input.result ?? {}) as Prisma.InputJsonValue
StoredResult(result) == IF result = Null THEN "{}" ELSE result

HasRow(rows, runId, callId) ==
    \E i \in 1..Len(rows) : rows[i].runId = runId /\ rows[i].callId = callId

UpsertAlwaysCreate(rows, row) == Append(rows, row)

\* prisma.toolResult.upsert({ where: { runId_callId }, create, update })
Upsert(rows, row) ==
    IF HasRow(rows, row.runId, row.callId)
    THEN [i \in 1..Len(rows) |->
            IF rows[i].runId = row.runId /\ rows[i].callId = row.callId
            THEN [rows[i] EXCEPT !.result = row.result, !.source = row.source,
                                 !.clientId = row.clientId]
            ELSE rows[i]]
    ELSE Append(rows, row)

\* the call is entered; prisma.run.findUnique finds no run: 'Run not found'
SubmitFindRun(u, runId, callId, result, source, clientId) ==
    /\ sub[u].pc \in {"idle", "done", "failed"}
    /\ subCalls < MaxSubmitCalls
    /\ subCalls' = subCalls + 1
    /\ sub' = [sub EXCEPT ![u] = IF RunExists(runId)
                                  THEN [pc |-> "upsert", runId |-> runId, callId |-> callId,
                                        result |-> result, source |-> source,
                                        clientId |-> clientId, target |-> Null,
                                        error |-> Null]
                                  ELSE SubThrew("Run not found")]
    /\ UNCHANGED <<toolCalls, toolResults, lastSub, execLog, messages, seqCounter,
                   spaceStream, notifyLog, runStream, conn, othersTool>>

ToolResultsNoFkey(calls, callId) == TRUE

\* ALTER TABLE "tool_results" ADD CONSTRAINT "tool_results_run_id_call_id_fkey"
\* FOREIGN KEY ("run_id", "call_id") REFERENCES "tool_calls"("run_id", "call_id")
ToolResultsFkey(calls, callId) == calls[callId].exists

\* createEmitEvent; await prisma.toolResult.upsert(...): the insert is
\* rejected when the row it refers to is not in tool_calls
SubmitUpsert(u) ==
    /\ sub[u].pc = "upsert"
    /\ IF ToolResultsFkey(toolCalls, sub[u].callId)
       THEN /\ toolResults' =
                  Upsert(toolResults,
                         [runId |-> sub[u].runId, callId |-> sub[u].callId,
                          result |-> StoredResult(sub[u].result),
                          source |-> EffectiveSource(sub[u].source, sub[u].clientId),
                          clientId |-> sub[u].clientId])
            /\ lastSub' = [lastSub EXCEPT ![sub[u].callId] =
                             [any |-> TRUE, result |-> sub[u].result,
                              source |-> sub[u].source, clientId |-> sub[u].clientId]]
            /\ sub' = [sub EXCEPT ![u].pc = "update"]
       ELSE /\ sub' = [sub EXCEPT ![u] = SubThrew("Foreign key constraint failed")]
            /\ UNCHANGED <<toolResults, lastSub>>
    /\ UNCHANGED <<toolCalls, execLog, messages, seqCounter, spaceStream, notifyLog,
                   runStream, conn, subCalls, othersTool>>

\* await prisma.toolCall.update({ where: { runId_callId }, data: { status:
\* 'completed', ... } }): rejects when there is no such ToolCall
SubmitUpdateCall(u) ==
    /\ sub[u].pc = "update"
    /\ IF toolCalls[sub[u].callId].exists
       THEN /\ toolCalls' = [toolCalls EXCEPT ![sub[u].callId].status = "completed"]
            /\ sub' = [sub EXCEPT ![u].pc = "findCall"]
       ELSE /\ sub' = [sub EXCEPT ![u] = SubThrew("Record to update not found")]
            /\ UNCHANGED toolCalls
    /\ UNCHANGED <<toolResults, lastSub, execLog, messages, seqCounter, spaceStream,
                   notifyLog, runStream, conn, subCalls, othersTool>>

NonServerAnyTarget(target) == target # Null

\* toolCall?.executionTarget && toolCall.executionTarget !== 'server'
NonServer(target) == target # Null /\ target # "server"

\* const toolCall = await prisma.toolCall.findUnique(...)
SubmitFindCall(u) ==
    /\ sub[u].pc = "findCall"
    /\ sub' = [sub EXCEPT ![u].target = toolCalls[sub[u].callId].target,
                          ![u].pc = IF NonServer(toolCalls[sub[u].callId].target)
                                    THEN "message" ELSE "runEvent1"]
    /\ UNCHANGED <<toolCalls, toolResults, lastSub, execLog, messages, seqCounter,
                   spaceStream, notifyLog, runStream, conn, subCalls, othersTool>>

\* the entity the tool message is stored under
ToolMessageEntity(source, clientId) ==
    IF source = "client"
    THEN IF clientId # Null /\ ClientEntity(clientId) # Null
         THEN ClientEntity(clientId) ELSE RunTriggeredBy
    ELSE RunAgentEntity

\* the client lookup and await createSmartSpaceMessage({ role: 'tool', ... })
SubmitMessage(u) ==
    /\ sub[u].pc = "message"
    /\ CreateMessage(RunSpace,
                     ToolMessageEntity(EffectiveSource(sub[u].source, sub[u].clientId),
                                       sub[u].clientId))
    /\ sub' = [sub EXCEPT ![u].pc = "spaceMessage"]
    /\ UNCHANGED <<toolCalls, toolResults, lastSub, execLog, seqCounter, spaceStream,
                   notifyLog, runStream, conn, subCalls, othersTool>>

\* await emitSmartSpaceEvent(run.smartSpaceId, 'smartSpace.message', ...)
SubmitSpaceMessage(u) ==
    /\ sub[u].pc = "spaceMessage"
    /\ EmitSpaceEvent(RunSpace, "smartSpace.message")
    /\ sub' = [sub EXCEPT ![u].pc = "runEvent1"]
    /\ UNCHANGED <<toolCalls, toolResults, lastSub, execLog, messages, runStream, conn,
                   subCalls, othersTool>>

\* await emitRunEvent('tool.result', ...)
SubmitRunEvent1(u) ==
    /\ sub[u].pc = "runEvent1"
    /\ EmitRunEvent("tool.result")
    /\ sub' = [sub EXCEPT ![u].pc = "runEvent2"]
    /\ UNCHANGED <<toolCalls, toolResults, lastSub, execLog, messages, seqCounter,
                   spaceStream, notifyLog, subCalls, othersTool>>

\* await emitRunEvent('message.tool', ...)
SubmitRunEvent2(u) ==
    /\ sub[u].pc = "runEvent2"
    /\ EmitRunEvent("message.tool")
    /\ sub' = [sub EXCEPT ![u].pc = "spaceEvent"]
    /\ UNCHANGED <<toolCalls, toolResults, lastSub, execLog, messages, seqCounter,
                   spaceStream, notifyLog, subCalls, othersTool>>

\* await emitSmartSpaceEvent(run.smartSpaceId, 'tool.result', ...); then
\* executeRun(input.runId) for a call that does not run on the server
SubmitFinish(u) ==
    /\ sub[u].pc = "spaceEvent"
    /\ EmitSpaceEvent(RunSpace, "tool.result")
    /\ execLog' = IF NonServer(sub[u].target)
                  THEN Append(execLog, [runId |-> sub[u].runId, callId |-> sub[u].callId])
                  ELSE execLog
    /\ sub' = [sub EXCEPT ![u] = SubEnded("done")]
    /\ UNCHANGED <<toolCalls, toolResults, lastSub, messages, runStream, conn, subCalls, othersTool>>

\* a dispatch error (no reachable connection, external-service timeout) is
\* terminal for the ToolCall: dispatched -> failed
ToolCallFail(t) ==
    /\ toolCalls[t].exists
    /\ toolCalls[t].status = "dispatched"
    /\ toolCalls' = [toolCalls EXCEPT ![t].status = "failed"]
    /\ UNCHANGED <<toolResults, sub, lastSub, subCalls, execLog, messages, seqCounter,
                   spaceStream, notifyLog, runStream, conn, othersTool>>

NextTool ==
    \/ \E u \in Subs, r \in RunIds, t \in CallIds, res \in Results, src \in Sources,
          k \in ClientIds : SubmitFindRun(u, r, t, res, src, k)
    \/ \E u \in Subs : SubmitUpsert(u)
    \/ \E u \in Subs : SubmitUpdateCall(u)
    \/ \E u \in Subs : SubmitFindCall(u)
    \/ \E u \in Subs : SubmitMessage(u)
    \/ \E u \in Subs : SubmitSpaceMessage(u)
    \/ \E u \in Subs : SubmitRunEvent1(u)
    \/ \E u \in Subs : SubmitRunEvent2(u)
    \/ \E u \in Subs : SubmitFinish(u)
    \/ \E t \in CallIds : ToolCallFail(t)

----------------------------------------------------------------------------
(* triggerAgentsInSmartSpace: agent-trigger.ts *)

\* const { triggerDepth = 0, maxDepth = 5 } = options
DefaultTriggerDepth == 0
DefaultMaxDepth == 5

\* the members of the SmartSpace: a human and two agent entities
Members == {"H", "A", "B"}
EntityType(e) == IF e = "H" THEN "human" ELSE "agent"
AgentIdOf(e) == IF e = "H" THEN Null ELSE e
TrigSpace == "s1"

\* the triggerAgentsInSmartSpace calls that can be in flight together
TrigCalls == {"g1", "g2"}

TooDeepOffByOne(triggerDepth, maxDepth) == triggerDepth > maxDepth

\* if (triggerDepth >= maxDepth) return []
TooDeep(triggerDepth, maxDepth) == triggerDepth >= maxDepth

AgentEntitiesWithSender(sender) ==
    {e \in Members : EntityType(e) = "agent" /\ AgentIdOf(e) # Null}

\* .filter((e) => e.type === 'agent' && e.agentId && e.id !== senderEntityId)
AgentEntities(sender) ==
    {e \in Members : EntityType(e) = "agent" /\ AgentIdOf(e) # Null /\ e # sender}

\* the membership rows in the order findMany returns them
MemberOrder == <<"H", "A", "B">>

InAgentEntities(sender, e) == e \in AgentEntities(sender)

\* agentEntities, as the for loop walks it
AgentEntitySeq(sender) == SelectSeq(MemberOrder, LAMBDA e : InAgentEntities(sender, e))

\* a call that has returned or thrown keeps none of its locals
TrigEnded(pc) == [pc |-> pc, sender |-> Null, depth |-> 0, todo |-> <<>>, last |-> 0,
                  createdRuns |-> <<>>]

TriggerInit ==
    /\ posted = Null
    /\ inbox = [e \in Members, d \in 0..(DefaultMaxDepth + 1) |-> 0]
    /\ trig = [g \in TrigCalls |-> TrigEnded("idle")]
    /\ runs = <<>>
    /\ skipped = 0

\* a member posts the message that starts the cascade: the caller passes no
\* triggerDepth
PostMessage(sender) ==
    /\ posted = Null
    /\ posted' = sender
    /\ inbox' = [inbox EXCEPT ![sender, DefaultTriggerDepth] = @ + 1]
    /\ UNCHANGED <<trig, runs, skipped, seqCounter, spaceStream, notifyLog, othersTrigger>>

\* a started run ends with its agent's message in the SmartSpace, which
\* triggers the other agents with the depth recorded in the run's metadata
RunOutput(i) ==
    /\ runs[i].started /\ ~runs[i].output
    /\ runs' = [runs EXCEPT ![i].output = TRUE]
    /\ inbox' = [inbox EXCEPT ![runs[i].agentEntityId, runs[i].triggerDepth] = @ + 1]
    /\ UNCHANGED <<posted, trig, skipped, seqCounter, spaceStream, notifyLog, othersTrigger>>

\* the call is entered: the depth guard, then membership findMany and the
\* filter
TriggerEnter(g, sender, depth) ==
    /\ trig[g].pc \in {"idle", "failed"}
    /\ inbox[sender, depth] > 0
    /\ inbox' = [inbox EXCEPT ![sender, depth] = @ - 1]
    /\ IF TooDeep(depth, DefaultMaxDepth)
       THEN /\ skipped' = skipped + 1
            /\ UNCHANGED trig
       ELSE /\ trig' = [trig EXCEPT ![g] = [pc |-> "create", sender |-> sender, depth |-> depth,
                                            todo |-> AgentEntitySeq(sender),
                                            last |-> 0, createdRuns |-> <<>>]]
            /\ UNCHANGED skipped
    /\ UNCHANGED <<posted, runs, seqCounter, spaceStream, notifyLog, othersTrigger>>

MetadataDepthSame(triggerDepth) == triggerDepth

\* metadata: { triggerDepth: triggerDepth + 1 }
MetadataDepth(triggerDepth) == triggerDepth + 1

\* await prisma.run.create({ data: { ..., status: 'queued',
\* metadata: { triggerDepth: triggerDepth + 1 } } }); createdRuns.push(...)
TriggerCreateRun(g) ==
    /\ trig[g].pc = "create"
    /\ trig[g].todo # <<>>
    /\ runs' = Append(runs, [agentEntityId |-> Head(trig[g].todo),
                             triggeredById |-> trig[g].sender,
                             status |-> "queued",
                             triggerDepth |-> MetadataDepth(trig[g].depth),
                             fromDepth |-> trig[g].depth,
                             started |-> FALSE, output |-> FALSE])
    /\ trig' = [trig EXCEPT ![g].pc = "announce", ![g].last = Len(runs) + 1,
                            ![g].createdRuns = Append(@, Len(runs) + 1)]
    /\ UNCHANGED <<posted, inbox, skipped, seqCounter, spaceStream, notifyLog, othersTrigger>>

\* await emitSmartSpaceEvent(smartSpaceId, 'run.created', ...); then
\* executeRun(run.id) in the background
TriggerAnnounce(g) ==
    /\ trig[g].pc = "announce"
    /\ EmitSpaceEvent(TrigSpace, "run.created")
    /\ runs' = [runs EXCEPT ![trig[g].last].started = TRUE]
    /\ trig' = [trig EXCEPT ![g].pc = "create", ![g].todo = Tail(@)]
    /\ UNCHANGED <<posted, inbox, skipped, othersTrigger>>

\* prisma.run.create rejects: nothing in the loop catches it, the call
\* rejects and the agents left in the loop are not reached
TriggerCreateFail(g) ==
    /\ trig[g].pc = "create"
    /\ trig[g].todo # <<>>
    /\ trig' = [trig EXCEPT ![g] = TrigEnded("failed")]
    /\ UNCHANGED <<posted, inbox, runs, skipped, seqCounter, spaceStream, notifyLog,
                   othersTrigger>>

\* emitSmartSpaceEvent rejects: the run row stays queued, executeRun is not
\* called for it, the call rejects
TriggerAnnounceFail(g, at) ==
    /\ trig[g].pc = "announce"
    /\ EmitSpaceEventFail(TrigSpace, "run.created", at)
    /\ trig' = [trig EXCEPT ![g] = TrigEnded("failed")]
    /\ UNCHANGED <<posted, inbox, runs, skipped, othersTrigger>>

\* the loop is over: return createdRuns
TriggerReturn(g) ==
    /\ trig[g].pc = "create"
    /\ trig[g].todo = <<>>
    /\ trig' = [trig EXCEPT ![g] = TrigEnded("idle")]
    /\ UNCHANGED <<posted, inbox, runs, skipped, seqCounter, spaceStream, notifyLog,
                   othersTrigger>>

NextTrigger ==
    \/ \E e \in Members : PostMessage(e)
    \/ \E i \in 1..Len(runs) : RunOutput(i)
    \/ \E g \in TrigCalls, e \in Members, d \in 0..(DefaultMaxDepth + 1) : TriggerEnter(g, e, d)
    \/ \E g \in TrigCalls : TriggerCreateRun(g)
    \/ \E g \in TrigCalls : TriggerAnnounce(g)
    \/ \E g \in TrigCalls : TriggerCreateFail(g)
    \/ \E g \in TrigCalls, at \in {"incr", "xadd", "publish"} : TriggerAnnounceFail(g, at)
    \/ \E g \in TrigCalls : TriggerReturn(g)

----------------------------------------------------------------------------
(* The WebSocket client registry and dispatchToolCallToClient: part_006    *)

Socks == {"w1", "w2"}
ClientKeys == {"ck1"}

\* the id of the Client row that prisma.client.upsert finds or creates for
\* a clientKey
ClientIdOf(key) == IF key = "ck1" THEN "k1" ELSE Null
RegClients == {ClientIdOf(key) : key \in ClientKeys}

\* the ToolCall the run dispatches, and the client it is dispatched to
DispatchCall == "t1"
DispatchClient == "k1"

\* a JavaScript Map as a set of <<key, value>> pairs: get, set and delete
MapGet(map, k) == IF \E p \in map : p[1] = k THEN (CHOOSE p \in map : p[1] = k)[2] ELSE Null
MapDelete(map, k) == {p \in map : p[1] # k}
MapSet(map, k, v) == MapDelete(map, k) \cup {<<k, v>>}

\* prisma.client.upsert({ where: { clientKey }, create: {...}, update: {...} }):
\* the row with this clientKey is updated in place, or a row is created
ClientUpsertAlwaysCreate(rows, key, entityId, at) ==
    Append(rows, [id |-> ClientIdOf(key), clientKey |-> key, entityId |-> entityId,
                  lastSeenAt |-> at])
ClientUpsert(rows, key, entityId, at) ==
    IF \E i \in 1..Len(rows) : rows[i].clientKey = key
    THEN [i \in 1..Len(rows) |->
            IF rows[i].clientKey = key
            THEN [rows[i] EXCEPT !.entityId = entityId, !.lastSeenAt = at]
            ELSE rows[i]]
    ELSE Append(rows, [id |-> ClientIdOf(key), clientKey |-> key, entityId |-> entityId,
                       lastSeenAt |-> at])

\* prisma.client.update({ where: { id }, data: { lastSeenAt } })
ClientTouch(rows, id, at) ==
    [i \in 1..Len(rows) |-> IF rows[i].id = id THEN [rows[i] EXCEPT !.lastSeenAt = at]
                                                ELSE rows[i]]

\* the lifetime the presence key is written with, in seconds
PresenceTtl == 60

DispatchInit ==
    /\ socks = [w \in Socks |-> [state |-> "none", clientConnection |-> Null, pc |-> "idle",
                                 key |-> Null]]
    /\ clientConnections = {}
    /\ clients = <<>>
    /\ presence = [k \in RegClients |-> "absent"]
    /\ wsOut = [w \in Socks |-> <<>>]
    /\ clientInbox = [k \in RegClients |-> <<>>]
    /\ dsp = [pc |-> "idle", connection |-> Null]
    /\ regCalls = 0

\* ws.send: a socket that is not open any more drops the message
WsSend(out, w, msg) ==
    IF socks[w].state = "open" THEN [out EXCEPT ![w] = Append(@, msg)] ELSE out

\* wss.on('connection')
WsConnect(w) ==
    /\ socks[w].state = "none"
    /\ socks' = [socks EXCEPT ![w].state = "open"]
    /\ UNCHANGED <<clientConnections, clients, presence, wsOut, clientInbox, dsp, regCalls,
                   now, othersDispatch>>

\* 'client.register': await prisma.client.upsert({ where: { clientKey }, ... })
WsRegisterUpsert(w, key, entityId) ==
    /\ socks[w].state = "open" /\ socks[w].pc = "idle"
    /\ regCalls < MaxRegCalls
    /\ regCalls' = regCalls + 1
    /\ clients' = ClientUpsert(clients, key, entityId, now)
    /\ now' = now + 1
    /\ socks' = [socks EXCEPT ![w].pc = "set", ![w].key = key]
    /\ UNCHANGED <<clientConnections, presence, wsOut, clientInbox, dsp, othersDispatch>>

\* clientConnection = { ws, clientId }; clientConnections.set(client.id, ...);
\* ws.send('client.registered'); then await redis.setex(presence)
WsRegisterSet(w) ==
    /\ socks[w].pc = "set"
    /\ socks' = [socks EXCEPT ![w].pc = "presence",
                              ![w].clientConnection = ClientIdOf(socks[w].key)]
    /\ clientConnections' = MapSet(clientConnections, ClientIdOf(socks[w].key), w)
    /\ wsOut' = WsSend(wsOut, w, "client.registered")
    /\ UNCHANGED <<clients, presence, clientInbox, dsp, regCalls, now, othersDispatch>>

\* redis.setex(`client:${client.id}:presence`, 60, 'online') takes effect
WsRegisterPresence(w) ==
    /\ socks[w].pc = "presence"
    /\ presence' = [presence EXCEPT ![ClientIdOf(socks[w].key)] = "online"]
    /\ socks' = [socks EXCEPT ![w].pc = "idle"]
    /\ UNCHANGED <<clientConnections, clients, wsOut, clientInbox, dsp, regCalls, now,
                   othersDispatch>>

\* 'ping': with a clientConnection, refresh the presence key and lastSeenAt;
\* ws.send('pong')
WsPing(w) ==
    /\ socks[w].state = "open" /\ socks[w].pc = "idle"
    /\ regCalls < MaxRegCalls
    /\ regCalls' = regCalls + 1
    /\ IF socks[w].clientConnection # Null
       THEN /\ presence' = [presence EXCEPT ![socks[w].clientConnection] = "online"]
            /\ clients' = ClientTouch(clients, socks[w].clientConnection, now)
            /\ now' = now + 1
       ELSE UNCHANGED <<presence, clients, now>>
    /\ wsOut' = WsSend(wsOut, w, "pong")
    /\ UNCHANGED <<socks, clientConnections, clientInbox, dsp, othersDispatch>>

\* ws.on('close'): with a clientConnection, clientConnections.delete(clientId),
\* then await redis.del(presence)
WsClose(w) ==
    /\ socks[w].state = "open"
    /\ socks' = [socks EXCEPT ![w].state = IF socks[w].clientConnection # Null
                                           THEN "closing" ELSE "closed"]
    /\ clientConnections' = IF socks[w].clientConnection # Null
                            THEN MapDelete(clientConnections, socks[w].clientConnection)
                            ELSE clientConnections
    /\ UNCHANGED <<clients, presence, wsOut, clientInbox, dsp, regCalls, now, othersDispatch>>

\* redis.del(`client:${clientId}:presence`) takes effect
WsClosePresence(w) ==
    /\ socks[w].state = "closing"
    /\ presence' = [presence EXCEPT ![socks[w].clientConnection] = "absent"]
    /\ socks' = [socks EXCEPT ![w].state = "closed"]
    /\ UNCHANGED <<clientConnections, clients, wsOut, clientInbox, dsp, regCalls, now,
                   othersDispatch>>

\* the presence key was written with setex and a lifetime of PresenceTtl
\* seconds: with no ping in that time redis drops it. Nothing else in the
\* registry runs on a timer.
PresenceExpire(k) ==
    /\ presence[k] = "online"
    /\ presence' = [presence EXCEPT ![k] = "expired"]
    /\ UNCHANGED <<socks, clientConnections, clients, wsOut, clientInbox, dsp, regCalls, now,
                   othersDispatch>>

\* dispatchToolCallToClient(clientId, toolCall), called for the run's
\* outstanding client tool call: clientConnections.get(clientId), and with
\* a connection, connection.ws.send('tool.call.request')
DispatchSend ==
    /\ dsp.pc = "idle"
    /\ run.status = "waiting_tool"
    /\ toolCalls[DispatchCall].status = "dispatched"
    /\ dsp' = [pc |-> "xadd", connection |-> MapGet(clientConnections, DispatchClient)]
    /\ wsOut' = IF MapGet(clientConnections, DispatchClient) # Null
                THEN WsSend(wsOut, MapGet(clientConnections, DispatchClient), DispatchCall)
                ELSE wsOut
    /\ UNCHANGED <<socks, clientConnections, clients, presence, clientInbox, regCalls, now,
                   othersDispatch>>

\* await redis.xadd(`client:${clientId}:inbox`, ...)
DispatchInbox ==
    /\ dsp.pc = "xadd"
    /\ clientInbox' = [clientInbox EXCEPT ![DispatchClient] = Append(@, DispatchCall)]
    /\ dsp' = [dsp EXCEPT !.pc = "done"]
    /\ UNCHANGED <<socks, clientConnections, clients, presence, wsOut, regCalls, now,
                   othersDispatch>>

NextDispatch ==
    \/ RunStart
    \/ RunWaitTool
    \/ \E w \in Socks : WsConnect(w)
    \/ \E w \in Socks, key \in ClientKeys : WsRegisterUpsert(w, key, "B")
    \/ \E w \in Socks : WsRegisterSet(w)
    \/ \E w \in Socks : WsRegisterPresence(w)
    \/ \E w \in Socks : WsPing(w)
    \/ \E w \in Socks : WsClose(w)
    \/ \E w \in Socks : WsClosePresence(w)
    \/ \E k \in RegClients : PresenceExpire(k)
    \/ DispatchSend
    \/ DispatchInbox

----------------------------------------------------------------------------
(* useHsafaGateway, startStream and attachToRun: useHsafaGateway.ts        *)

\* the stream connection the hook's EventSource uses
HookConn == 1

MAX_RECONNECT_ATTEMPTS == 5

HookInit ==
    /\ hook = [mode |-> "none", pc |-> "idle", es |-> "none", read |-> 0, attempts |-> 0,
               timer |-> FALSE, reconnects |-> 0, active |-> FALSE, sseCutoffIso |-> 0,
               buffered |-> <<>>, events |-> <<>>, downAt |-> 0, upAt |-> 0]
    /\ processed = <<>>
    /\ evTs = <<>>

\* the run emits a text.delta: the event, stamped with the time, goes to the
\* run's stream and to the RunEvent rows
HookRunEvent ==
    /\ Len(runStream) < MaxEvents
    /\ runStream' = Append(runStream, "text.delta")
    /\ evTs' = Append(evTs, now)
    /\ now' = now + 1
    /\ pubPending' = pubPending + 1
    /\ UNCHANGED <<conn, hook, processed, othersHook>>

\* startStream(runId): close the old EventSource, new EventSource(.../stream)
StartedStream(h) == [h EXCEPT !.es = "connecting", !.read = 0, !.timer = FALSE]

\* createRun: POST /api/runs, then startStream(data.runId)
HookCreateRun ==
    /\ hook.pc = "idle"
    /\ hook' = [StartedStream(hook) EXCEPT !.mode = "create", !.pc = "done", !.attempts = 0]
    /\ UNCHANGED <<processed, evTs, runStream, pubPending, conn, now, othersHook>>

\* attachToRun up to await loadRunStatus(newRunId)
HookAttach ==
    /\ hook.pc = "idle"
    /\ hook' = [hook EXCEPT !.mode = "attach", !.pc = "status"]
    /\ UNCHANGED <<processed, evTs, runStream, pubPending, conn, now, othersHook>>

\* hydrateStateRef = { active: true, sseCutoffIso: null }; the buffer is
\* emptied; startStream(newRunId); await loadRunMessages(newRunId)
HookAttachStream ==
    /\ hook.pc = "status"
    /\ hook' = [StartedStream(hook) EXCEPT !.pc = "messages", !.attempts = 0,
                                            !.active = TRUE, !.sseCutoffIso = 0,
                                            !.buffered = <<>>]
    /\ UNCHANGED <<processed, evTs, runStream, pubPending, conn, now, othersHook>>

\* the history has no assistant message after the last user message (the
\* run is in mid-stream): await loadRunEvents(newRunId)
HookMessagesLoaded ==
    /\ hook.pc = "messages"
    /\ hook' = [hook EXCEPT !.pc = "events"]
    /\ UNCHANGED <<processed, evTs, runStream, pubPending, conn, now, othersHook>>

\* GET /runs/:runId/events: prisma.runEvent.findMany ordered by seq
HookEventsServed ==
    /\ hook.pc = "events"
    /\ hook' = [hook EXCEPT !.pc = "respond", !.events = Ids(1, Len(runStream))]
    /\ UNCHANGED <<processed, evTs, runStream, pubPending, conn, now, othersHook>>

\* the loaded events the replay loop passes to processEvent: evt.ts < cutoffIso
Replayed(events, cutoffIso) == SelectSeq(events, LAMBDA id : evTs[id] < cutoffIso)

\* the buffered events the flush loop passes to processEvent: the ones with
\* evt.ts < cutoffIso are dropped
Flushed(buffered, cutoffIso) == SelectSeq(buffered, LAMBDA id : ~(evTs[id] < cutoffIso))

\* sseCutoffIso || new Date().toISOString()
CutoffIso(sseCutoffIso) == IF sseCutoffIso # 0 THEN sseCutoffIso ELSE now

\* the events arrive: replay the ones before the cutoff, then flush the
\* buffer and end the hydration
HookReplayFlush ==
    /\ hook.pc = "respond"
    /\ processed' = processed \o Replayed(hook.events, CutoffIso(hook.sseCutoffIso))
                              \o Flushed(hook.buffered, CutoffIso(hook.sseCutoffIso))
    /\ now' = IF hook.sseCutoffIso # 0 THEN now ELSE now + 1
    /\ hook' = [hook EXCEPT !.pc = "done", !.active = FALSE, !.sseCutoffIso = 0,
                            !.buffered = <<>>, !.events = <<>>]
    /\ UNCHANGED <<evTs, runStream, pubPending, conn, othersHook>>

\* the EventSource's GET .../stream reaches the gateway with neither
\* ?since nor Last-Event-ID: the handler is entered and flushes the headers
HookRequest ==
    /\ hook.es = "connecting"
    /\ conn[HookConn].pc \in {"none", "ended"}
    /\ conn' = [conn EXCEPT ![HookConn] = OpenConn(HookConn, Dollar, Dollar, hook.reconnects > 0)]
    /\ hook' = [hook EXCEPT !.es = "opening", !.upAt = Len(runStream)]
    /\ UNCHANGED <<processed, evTs, runStream, pubPending, now, othersHook>>

\* eventSource.onopen
HookOnOpen ==
    /\ hook.es = "opening"
    /\ conn[HookConn].open
    /\ hook' = [hook EXCEPT !.es = "open", !.attempts = 0,
                            !.sseCutoffIso = IF hook.active THEN now ELSE @]
    /\ now' = IF hook.active THEN now + 1 ELSE now
    /\ UNCHANGED <<processed, evTs, runStream, pubPending, conn, othersHook>>

\* the 'hsafa' listener gets the next event written on the connection:
\* buffered while hydrating, else processEvent(event)
HookOnEvent ==
    /\ hook.es = "open"
    /\ conn[HookConn].open
    /\ hook.read < Len(conn[HookConn].written)
    /\ LET id == conn[HookConn].written[hook.read + 1]
       IN IF hook.active
          THEN /\ hook' = [hook EXCEPT !.read = @ + 1, !.buffered = Append(@, id)]
               /\ UNCHANGED processed
          ELSE /\ hook' = [hook EXCEPT !.read = @ + 1]
               /\ processed' = Append(processed, id)
    /\ UNCHANGED <<evTs, runStream, pubPending, conn, now, othersHook>>

\* eventSource.onerror after the transport failed: close, and schedule
\* startStream(runId, true) while attempts remain (downAt and upAt record
\* the stream's length at the failure and at the next request)
HookOnError ==
    /\ hook.es \in {"opening", "open"}
    /\ ~conn[HookConn].open
    /\ hook' = [hook EXCEPT
                  !.es = "closed",
                  !.downAt = Len(runStream),
                  !.attempts = IF @ < MAX_RECONNECT_ATTEMPTS THEN @ + 1 ELSE @,
                  !.timer = hook.attempts < MAX_RECONNECT_ATTEMPTS]
    /\ UNCHANGED <<processed, evTs, runStream, pubPending, conn, now, othersHook>>

\* the reconnect timeout fires: startStream(streamRunId, true)
HookReconnect ==
    /\ hook.timer
    /\ hook.reconnects < MaxHookReconnects
    /\ hook' = [StartedStream(hook) EXCEPT !.reconnects = @ + 1]
    /\ UNCHANGED <<processed, evTs, runStream, pubPending, conn, now, othersHook>>

NextHook ==
    \/ HookRunEvent
    \/ RunPublish
    \/ HookCreateRun
    \/ HookAttach
    \/ HookAttachStream
    \/ HookMessagesLoaded
    \/ HookEventsServed
    \/ HookReplayFlush
    \/ HookRequest
    \/ HookOnOpen
    \/ HookOnEvent
    \/ HookOnError
    \/ HookReconnect
    \/ StreamFindRun(HookConn)
    \/ StreamTail(HookConn)
    \/ StreamSubscribe(HookConn)
    \/ StreamArm(HookConn)
    \/ StreamOnMessage(HookConn)
    \/ StreamXRead(HookConn)
    \/ StreamReadReturn(HookConn)
    \/ StreamClose(HookConn)

----------------------------------------------------------------------------
(* The auth middleware in front of the /api/runs/:runId routes: part_003,  *)
(* runs.ts                                                                 *)

\* the runs a request can name: r1 in s1, r2 in s2, r0 does not exist
AuthRunIds == {"r1", "r2", "r0"}
SpaceOfRun(runId) == IF runId = "r1" THEN RunSpace ELSE IF runId = "r2" THEN "s2" ELSE Null

Routes == {"stream", "events", "tool-results", "cancel"}

\* the request headers. A SmartSpace's secret key and public key are named
\* by the SmartSpace; "bad" is a key or token nothing matches. The bearer
\* token "H" verifies and carries the externalId of entity H, "stranger"
\* verifies and carries an externalId no entity has.
GatewayAdminKey == "good"
Headers == [admin : {Null, "good", "bad"}, secret : {Null, "bad"} \cup Spaces,
            public : {Null, "bad"} \cup Spaces, bearer : {Null, "H", "stranger", "bad"}]

Reject(status) == [ok |-> FALSE, status |-> status, auth |-> Null]
Pass(method, smartSpaceId, entityId) ==
    [ok |-> TRUE, status |-> 0,
     auth |-> [method |-> method, smartSpaceId |-> smartSpaceId, entityId |-> entityId]]

\* prisma.smartSpace.findUnique({ where: { secretKey } }) / ({ where: { publicKey } })
SpaceByKey(key) == IF key \in Spaces THEN key ELSE Null

\* verifyJWT, extractExternalId and prisma.entity.findUnique({ where: { externalId } })
EntityOfBearer(bearer) == IF bearer = "H" THEN "H" ELSE Null

RequireGatewayAdmin(h) ==
    IF h.admin = Null THEN Reject(401)
    ELSE IF h.admin # GatewayAdminKey THEN Reject(401)
    ELSE Pass("gateway_admin", Null, Null)

RequireSecretKey(h) ==
    IF h.secret = Null THEN Reject(401)
    ELSE IF SpaceByKey(h.secret) = Null THEN Reject(401)
    ELSE Pass("secret_key", SpaceByKey(h.secret), Null)

RequirePublicKeyJWT(h) ==
    IF h.public = Null THEN Reject(401)
    ELSE IF h.bearer = Null THEN Reject(401)
    ELSE IF SpaceByKey(h.public) = Null THEN Reject(401)
    ELSE IF h.bearer = "bad" THEN Reject(401)
    ELSE IF EntityOfBearer(h.bearer) = Null THEN Reject(403)
    ELSE Pass("public_key_jwt", SpaceByKey(h.public), EntityOfBearer(h.bearer))

\* admin key first, then secret key, then public key + JWT
RequireAuth(h) ==
    IF h.admin # Null THEN RequireGatewayAdmin(h)
    ELSE IF h.secret # Null THEN RequireSecretKey(h)
    ELSE IF h.public # Null THEN RequirePublicKeyJWT(h)
    ELSE Reject(401)

\* the middleware each route is mounted with
RouteAuth(route, h) == IF route = "cancel" THEN RequireSecretKey(h) ELSE RequireAuth(h)

\* what the handler answers once the middleware has called next(): each
\* handler goes by req.params.runId alone. stream and cancel look the run
\* up and answer a missing run with an error event / 404; tool-results
\* throws 'Run not found' inside submitToolResult (500); events lists the
\* RunEvent rows of the runId, none for a missing run.
HandlerStatus(route, runId) ==
    IF SpaceOfRun(runId) # Null THEN 200
    ELSE IF route = "cancel" THEN 404
    ELSE IF route = "tool-results" THEN 500
    ELSE 200

ApiInit ==
    req = [pc |-> "idle", route |-> Null, runId |-> Null, headers |-> Null, auth |-> Null,
           status |-> 0, granted |-> FALSE]

\* a request arrives
ReqArrive(route, runId, h) ==
    /\ req.pc \in {"idle", "served", "rejected"}
    /\ req' = [pc |-> "auth", route |-> route, runId |-> runId, headers |-> h, auth |-> Null,
               status |-> 0, granted |-> FALSE]
    /\ UNCHANGED othersApi

\* the middleware sets req.auth and calls next(), or answers 401 / 403
ReqAuth ==
    /\ req.pc = "auth"
    /\ LET a == RouteAuth(req.route, req.headers)
       IN  req' = IF a.ok THEN [req EXCEPT !.pc = "handler", !.auth = a.auth]
                  ELSE [req EXCEPT !.pc = "rejected", !.status = a.status]
    /\ UNCHANGED othersApi

\* the route handler runs for req.params.runId: it streams or lists the
\* run's events, submits the tool result or cancels the run
ReqHandle ==
    /\ req.pc = "handler"
    /\ req' = [req EXCEPT !.pc = "served", !.status = HandlerStatus(req.route, req.runId),
                          !.granted = SpaceOfRun(req.runId) # Null]
    /\ UNCHANGED othersApi

NextApi ==
    \/ \E route \in Routes, runId \in AuthRunIds, h \in Headers : ReqArrive(route, runId, h)
    \/ ReqAuth
    \/ ReqHandle

----------------------------------------------------------------------------
(* POST /api/agents, sortKeysDeep and stableStringify: routes/entities.ts  *)

\* JSON values: a string, an object as its properties in insertion order,
\* or undefined
Scalar(x) == [t |-> "s", s |-> x, kv |-> <<>>]
Undefined == [t |-> "u", s |-> "", kv |-> <<>>]
Obj(kv) == [t |-> "o", s |-> "", kv |-> kv]
Pair(k, v) == [k |-> k, v |-> v]

\* obj[key], undefined when the object has no such property
Get(obj, key) ==
    IF obj.t = "o" /\ \E i \in 1..Len(obj.kv) : obj.kv[i].k = key
    THEN obj.kv[CHOOSE i \in 1..Len(obj.kv) : obj.kv[i].k = key].v
    ELSE Undefined

\* the place of a property name in the order of Array.prototype.sort()
KeyRank(k) ==
    IF k = "agent" THEN 1 ELSE IF k = "description" THEN 2 ELSE IF k = "model" THEN 3 ELSE 4

\* Object.keys(obj).sort(), as the properties in that order
RECURSIVE SortByKey(_)
SortByKey(kv) ==
    IF kv = <<>> THEN <<>>
    ELSE LET i == CHOOSE i \in 1..Len(kv) :
                      \A j \in 1..Len(kv) : KeyRank(kv[i].k) <= KeyRank(kv[j].k)
         IN  <<kv[i]>> \o SortByKey(SubSeq(kv, 1, i - 1) \o SubSeq(kv, i + 1, Len(kv)))

SortKeysShallow(value) ==
    IF value.t = "o"
    THEN Obj(SelectSeq(SortByKey(value.kv), LAMBDA p : p.v.t # "u"))
    ELSE value

\* sortKeysDeep: an object's properties in sorted key order, those with an
\* undefined value left out, each value sorted in turn
RECURSIVE SortKeysDeep(_)
SortKeysDeep(value) ==
    IF value.t = "o"
    THEN LET kept == SelectSeq(SortByKey(value.kv), LAMBDA p : p.v.t # "u")
         IN  Obj([i \in 1..Len(kept) |-> Pair(kept[i].k, SortKeysDeep(kept[i].v))])
    ELSE value

\* JSON.stringify, as the sequence of the text's tokens; a property with an
\* undefined value is left out
RECURSIVE Stringify(_)
RECURSIVE StringifyPairs(_)
StringifyPairs(kv) ==
    IF kv = <<>> THEN <<>>
    ELSE (IF Head(kv).v.t = "u" THEN <<>>
          ELSE <<Head(kv).k, ":">> \o Stringify(Head(kv).v) \o <<",">>)
         \o StringifyPairs(Tail(kv))
Stringify(value) ==
    IF value.t = "o" THEN <<"{">> \o StringifyPairs(value.kv) \o <<"}">>
    ELSE <<value.s>>

StableStringify(value) == Stringify(SortKeysDeep(value))

\* createHash('sha256').update(text).digest('hex'): a digest is named by
\* the text it is the digest of
ConfigHash(config) == StableStringify(config)

\* validateAgentConfig: returns the config, or throws for a config without
\* its agent section
ValidConfig(config) == Get(config, "agent").t = "o"

\* String.prototype.trim
Trim(name) == IF name = " ops " THEN "ops" ELSE name

\* typeof name === 'string' && name.trim().length > 0 ? name.trim()
\*                                                   : validatedConfig.agent?.name
AgentName(name, config) ==
    IF name # Null /\ Trim(name) # "" THEN Trim(name)
    ELSE IF Get(Get(config, "agent"), "name").t = "s" THEN Get(Get(config, "agent"), "name").s
    ELSE Null

\* validatedConfig.agent?.description
Description(config) ==
    IF Get(Get(config, "agent"), "description").t = "s"
    THEN Get(Get(config, "agent"), "description").s ELSE Null

\* the requests' inputs: configs that differ in key order at both levels,
\* in the description and in its presence; a config with no agent section;
\* no config at all
Cfg(agentFirst, nameFirst, d) ==
    LET dv == IF d = Null THEN Undefined ELSE Scalar(d)
        ag == Obj(IF nameFirst THEN <<Pair("name", Scalar("bot")), Pair("description", dv)>>
                               ELSE <<Pair("description", dv), Pair("name", Scalar("bot"))>>)
    IN  Obj(IF agentFirst THEN <<Pair("agent", ag), Pair("model", Scalar("m1"))>>
                          ELSE <<Pair("model", Scalar("m1")), Pair("agent", ag)>>)
Configs == {Cfg(a, n, d) : a \in BOOLEAN, n \in BOOLEAN, d \in {"d1", Null}}
BadConfig == Obj(<<Pair("model", Scalar("m1"))>>)
Names == {Null, " ops "}
Posts == {"p1", "p2"}

\* two JSON values are equal up to the order of their properties
RECURSIVE SameJson(_, _)
SameJson(a, b) ==
    IF a.t = "o" /\ b.t = "o"
    THEN LET keys(o) == {o.kv[i].k : i \in {j \in 1..Len(o.kv) : o.kv[j].v.t # "u"}}
         IN  /\ keys(a) = keys(b)
             /\ \A k \in keys(a) : SameJson(Get(a, k), Get(b, k))
    ELSE a = b

\* prisma.agent.findUnique({ where: { name } })
HasAgent(rows, name) == \E i \in 1..Len(rows) : rows[i].name = name
AgentRow(rows, name) == rows[CHOOSE i \in 1..Len(rows) : rows[i].name = name]

\* prisma.agent.upsert({ where: { name }, create, update }); a description
\* of undefined leaves the stored one as it is
AgentUpsert(rows, name, config) ==
    IF HasAgent(rows, name)
    THEN [i \in 1..Len(rows) |->
            IF rows[i].name = name
            THEN [rows[i] EXCEPT !.configJson = config, !.configHash = ConfigHash(config),
                                 !.description = IF Description(config) = Null THEN @
                                                 ELSE Description(config)]
            ELSE rows[i]]
    ELSE Append(rows, [id |-> Len(rows) + 1, name |-> name, configJson |-> config,
                       configHash |-> ConfigHash(config),
                       description |-> Description(config)])

\* a request slot; existed, same, exact and oldId are history: whether the
\* name had an agent when the handler looked, whether that agent's stored
\* config equalled the submitted one up to key order, whether it equalled
\* it key order included, and that agent's id
NoPost == [pc |-> "idle", config |-> Undefined, agentName |-> Null,
           existed |-> FALSE, same |-> FALSE, exact |-> FALSE, oldId |-> 0,
           status |-> 0, agentId |-> 0, created |-> FALSE]

AgentsInit ==
    /\ agents = <<>>
    /\ post = [p \in Posts |-> NoPost]

\* the handler up to its first await and what follows the await's result:
\* 400 without a config or a name, 500 when validateAgentConfig throws, the
\* existing agent's id with created: false when the stored hash is the
\* config's hash, and otherwise on to the upsert
PostAgentFind(p, name, config) ==
    /\ post[p].pc \in {"idle", "done"}
    /\ post' = [post EXCEPT ![p] =
             IF config.t # "o" THEN [NoPost EXCEPT !.pc = "done", !.status = 400]
             ELSE IF ~ValidConfig(config) THEN [NoPost EXCEPT !.pc = "done", !.status = 500]
             ELSE IF AgentName(name, config) = Null
                  THEN [NoPost EXCEPT !.pc = "done", !.status = 400]
             ELSE LET an == AgentName(name, config)
                      ex == HasAgent(agents, an)
                      seen == [NoPost EXCEPT
                                 !.existed = ex,
                                 !.same = ex /\ SameJson(AgentRow(agents, an).configJson, config),
                                 !.exact = ex /\ AgentRow(agents, an).configJson = config,
                                 !.oldId = IF ex THEN AgentRow(agents, an).id ELSE 0]
                  IN  IF ex /\ AgentRow(agents, an).configHash = ConfigHash(config)
                      THEN [seen EXCEPT !.pc = "done", !.status = 200,
                                        !.agentId = AgentRow(agents, an).id, !.created = FALSE]
                      ELSE [seen EXCEPT !.pc = "upsert", !.agentName = an, !.config = config]]
    /\ UNCHANGED <<agents, othersAgents>>

\* await prisma.agent.upsert(...); res.json({ agentId, configHash, created: true })
PostAgentUpsert(p) ==
    /\ post[p].pc = "upsert"
    /\ agents' = AgentUpsert(agents, post[p].agentName, post[p].config)
    /\ post' = [post EXCEPT ![p].pc = "done", ![p].status = 200,
                            ![p].agentId = AgentRow(agents', post[p].agentName).id,
                            ![p].created = TRUE,
                            ![p].agentName = Null, ![p].config = Undefined]
    /\ UNCHANGED othersAgents

NextAgents ==
    \/ \E p \in Posts, name \in Names, config \in Configs \cup {BadConfig, Undefined} :
          PostAgentFind(p, name, config)
    \/ \E p \in Posts : PostAgentUpsert(p)

----------------------------------------------------------------------------
(* useHsafaGateway across runs: attachToRun, startStream's reconnection,   *)
(* processEvent and the messages list: useHsafaGateway.ts                  *)

ClientRuns == {"A", "B"}

\* the events the gateway emits for each run, in order; an event's ts is
\* its place in the script. Run A calls a browser tool that the hook
\* executes itself (tools[toolName] is defined), gets its result, streams
\* text and ends with the assistant message.
Script(r) ==
    IF r = "A" THEN <<"tool.call", "tool.result", "text.delta", "message.assistant">>
    ELSE <<"text.delta">>

RECONNECT_BASE_DELAY == 1000

RECURSIVE MathPow(_, _)
MathPow(b, n) == IF n = 0 THEN 1 ELSE b * MathPow(b, n - 1)

ReconnectDelayLinear(attempts) == RECONNECT_BASE_DELAY * (attempts + 1)

\* RECONNECT_BASE_DELAY * Math.pow(2, reconnectAttemptsRef.current)
ReconnectDelay(attempts) == RECONNECT_BASE_DELAY * MathPow(2, attempts)

\* message ids: the id of a persisted message, `draft_${genId()}`, and the
\* null of draftAssistantIdRef
MsgId(key) == [kind |-> "msg", n |-> 0, key |-> key]
DraftId(n) == [kind |-> "draft", n |-> n, key |-> ""]
NoDraft == [kind |-> "none", n |-> 0, key |-> ""]

UserKey(r) == IF r = "A" THEN "uA" ELSE "uB"
AssistantKey(r) == IF r = "A" THEN "mA" ELSE "mB"

\* sseCutoffIso: null
NoCutoff == -1

NoHydrate == [active |-> FALSE, runId |-> Null, sseCutoffIso |-> NoCutoff]

ClientInit ==
    /\ sse = [attached |-> Null, runId |-> Null, es |-> Null, esState |-> "none", pos |-> 0,
              attempts |-> 0, timer |-> Null, delay |-> 0, lost |-> FALSE, fails |-> 0,
              attaches |-> 0]
    /\ view = [messages |-> <<>>, draft |-> NoDraft, drafts |-> 0, hydrate |-> NoHydrate,
               buffered |-> <<>>, executed |-> [r \in ClientRuns |-> 0]]
    /\ att = [r \in ClientRuns |-> "idle"]
    /\ srv = [r \in ClientRuns |-> 0]

\* GET /api/runs/:runId/messages: the user message, and the assistant
\* message once the run has emitted message.assistant
History(r) ==
    <<[id |-> MsgId(UserKey(r)), run |-> r, role |-> "user"]>> \o
    (IF \E k \in 1..srv[r] : Script(r)[k] = "message.assistant"
     THEN <<[id |-> MsgId(AssistantKey(r)), run |-> r, role |-> "assistant"]>>
     ELSE <<>>)

HasAssistantAfterLastUser(history) ==
    LET users == {i \in 1..Len(history) : history[i].role = "user"}
    IN  IF users = {} THEN TRUE
        ELSE LET lastUserIdx == CHOOSE i \in users : \A j \in users : j <= i
             IN  \E j \in (lastUserIdx + 1)..Len(history) : history[j].role = "assistant"

\* upsertMessageById: replace the message with this id, or append
UpsertMessageById(msgs, msg) ==
    IF \E i \in 1..Len(msgs) : msgs[i].id = msg.id
    THEN LET idx == CHOOSE i \in 1..Len(msgs) :
                        msgs[i].id = msg.id /\ \A j \in 1..(i - 1) : msgs[j].id # msg.id
         IN  [msgs EXCEPT ![idx] = msg]
    ELSE Append(msgs, msg)

\* if (prev.some(m => m.id === msg.id)) return prev; return [...prev, msg]
AddIfAbsent(msgs, msg) ==
    IF \E i \in 1..Len(msgs) : msgs[i].id = msg.id THEN msgs ELSE Append(msgs, msg)

\* processEvent 'text.delta': ensureDraftAssistant, then the draft's text
\* part is rewritten in place
ProcessDelta(v, r) ==
    IF v.draft # NoDraft THEN v
    ELSE [v EXCEPT !.draft = DraftId(v.drafts + 1),
                   !.drafts = @ + 1,
                   !.messages = UpsertMessageById(@, [id |-> DraftId(v.drafts + 1), run |-> r,
                                                       role |-> "assistant"])]

\* processEvent 'message.assistant': with a draft, the draft is given the
\* final message's id in place (or, the draft gone from the list, the
\* message is added when absent); without one the message is added when
\* absent
ProcessAssistant(v, r) ==
    LET msg == [id |-> MsgId(AssistantKey(r)), run |-> r, role |-> "assistant"]
    IN  IF v.draft # NoDraft
        THEN [v EXCEPT
                !.draft = NoDraft,
                !.messages =
                    IF \E i \in 1..Len(@) : @[i].id = v.draft
                    THEN LET draftIdx == CHOOSE i \in 1..Len(@) : @[i].id = v.draft
                         IN  [@ EXCEPT ![draftIdx].id = msg.id]
                    ELSE AddIfAbsent(@, msg)]
        ELSE [v EXCEPT !.messages = AddIfAbsent(@, msg)]

\* processEvent(event), for the event at place k of run r's script; a
\* 'tool.call' of a tool in `tools` runs executeBrowserTool
ProcessEvent(v, r, k) ==
    IF Script(r)[k] = "tool.call" THEN [v EXCEPT !.executed[r] = @ + 1]
    ELSE IF Script(r)[k] = "text.delta" THEN ProcessDelta(v, r)
    ELSE IF Script(r)[k] = "message.assistant" THEN ProcessAssistant(v, r)
    ELSE v

RECURSIVE ProcessAll(_, _, _)
ProcessAll(v, r, ks) ==
    IF ks = <<>> THEN v ELSE ProcessAll(ProcessEvent(v, r, Head(ks)), r, Tail(ks))

\* the event types attachToRun's replay loop passes on
ReplayTypes == {"text.delta", "reasoning.delta", "tool.call", "tool.result", "run.completed",
                "run.failed", "stream.error"}

\* startStream(currentRunId, isReconnect)
StartStream(s, r, isReconnect) ==
    [s EXCEPT !.es = r, !.esState = "connecting", !.pos = 0, !.timer = Null, !.delay = 0,
              !.attempts = IF isReconnect THEN @ ELSE 0,
              !.fails = IF isReconnect THEN @ ELSE 0,
              !.attached = r]

\* attachToRun(newRunId) up to await loadRunStatus: the stream is closed,
\* the timeout cleared, the messages emptied, attachedRunIdRef set
AttachToRun(r) ==
    /\ att[r] = "idle"
    /\ sse.attaches < MaxAttaches
    /\ sse' = [sse EXCEPT !.es = Null, !.esState = "none", !.timer = Null, !.delay = 0,
                          !.attached = r, !.runId = r, !.attaches = @ + 1]
    /\ view' = [view EXCEPT !.messages = <<>>]
    /\ att' = [att EXCEPT ![r] = "status"]
    /\ UNCHANGED <<srv, othersClient>>

\* loadRunStatus resolves: the draft refs are reset, hydration starts,
\* startStream(newRunId), await loadRunMessages
AttachStatusLoaded(r) ==
    /\ att[r] = "status"
    /\ view' = [view EXCEPT !.draft = NoDraft,
                            !.hydrate = [active |-> TRUE, runId |-> r, sseCutoffIso |-> NoCutoff],
                            !.buffered = <<>>]
    /\ sse' = StartStream(sse, r, FALSE)
    /\ att' = [att EXCEPT ![r] = "messages"]
    /\ UNCHANGED <<srv, othersClient>>

\* sseCutoffIso || new Date().toISOString(): every event emitted so far is
\* before now
CutoffOf(v, r) == IF v.hydrate.sseCutoffIso # NoCutoff THEN v.hydrate.sseCutoffIso ELSE srv[r]

\* the end of attachToRun: the buffered events from the cutoff on are
\* processed and hydration ends; the loop returns at its first event when
\* another run is attached
FlushBuffered(v, r, attached) ==
    IF v.hydrate.runId = r
    THEN LET cutoffIso == CutoffOf(v, r)
             buffered == v.buffered
             cleared == [v EXCEPT !.buffered = <<>>, !.hydrate = NoHydrate]
         IN  IF attached # r THEN cleared
             ELSE ProcessAll(cleared, r, SelectSeq(buffered, LAMBDA k : ~(k <= cutoffIso)))
    ELSE [v EXCEPT !.buffered = <<>>, !.hydrate = NoHydrate]

\* loadRunMessages resolves: setMessages(history); then await
\* loadRunEvents when no assistant message follows the last user message,
\* else the flush
AttachMessagesLoaded(r) ==
    /\ att[r] = "messages"
    /\ IF HasAssistantAfterLastUser(History(r))
       THEN /\ view' = FlushBuffered([view EXCEPT !.messages = History(r)], r, sse.attached)
            /\ att' = [att EXCEPT ![r] = "idle"]
       ELSE /\ view' = [view EXCEPT !.messages = History(r)]
            /\ att' = [att EXCEPT ![r] = "events"]
    /\ UNCHANGED <<sse, srv, othersClient>>

\* loadRunEvents resolves: the persisted events before the cutoff are
\* replayed (the function returns at the first one when another run is
\* attached), then the flush
AttachEventsLoaded(r) ==
    /\ att[r] = "events"
    /\ LET cutoffIso == IF view.hydrate.runId = r THEN CutoffOf(view, r) ELSE srv[r]
           replayed == SelectSeq(Ids(1, srv[r]),
                                 LAMBDA k : k <= cutoffIso /\ Script(r)[k] \in ReplayTypes)
       IN  view' = IF srv[r] > 0 /\ sse.attached # r THEN view
                   ELSE FlushBuffered(ProcessAll(view, r, replayed), r, sse.attached)
    /\ att' = [att EXCEPT ![r] = "idle"]
    /\ UNCHANGED <<sse, srv, othersClient>>

\* deleteRun(targetRunId) of the current run, after the DELETE succeeded:
\* the stream is closed, the messages emptied, attachedRunIdRef = null
DeleteRun(r) ==
    /\ sse.runId = r
    /\ sse' = [sse EXCEPT !.es = Null, !.esState = "none", !.attached = Null, !.runId = Null]
    /\ view' = [view EXCEPT !.messages = <<>>]
    /\ UNCHANGED <<att, srv, othersClient>>

\* the gateway emits the run's next event
ServerEmit(r) ==
    /\ srv[r] < Len(Script(r))
    /\ srv' = [srv EXCEPT ![r] = @ + 1]
    /\ UNCHANGED <<sse, view, att, othersClient>>

\* eventSource.onopen: the stream starts after the events emitted so far
EsOpen ==
    /\ sse.esState = "connecting"
    /\ sse' = [sse EXCEPT !.esState = "open", !.attempts = 0, !.fails = 0, !.pos = srv[sse.es]]
    /\ view' = IF view.hydrate.active /\ view.hydrate.runId = sse.es
               THEN [view EXCEPT !.hydrate.sseCutoffIso = srv[sse.es]]
               ELSE view
    /\ UNCHANGED <<att, srv, othersClient>>

\* the 'hsafa' listener gets the stream's next event: dropped when another
\* run is attached, buffered while this run hydrates, else processEvent
EsEvent ==
    /\ sse.esState = "open"
    /\ sse.pos < srv[sse.es]
    /\ sse' = [sse EXCEPT !.pos = @ + 1]
    /\ view' = IF sse.attached # sse.es THEN view
               ELSE IF view.hydrate.active /\ view.hydrate.runId = sse.es
               THEN [view EXCEPT !.buffered = Append(@, sse.pos + 1)]
               ELSE ProcessEvent(view, sse.es, sse.pos + 1)
    /\ UNCHANGED <<att, srv, othersClient>>

\* eventSource.onerror: close; still attached to the stream's run, either
\* schedule startStream(streamRunId, true) or give up with the
\* connection-lost error
EsError ==
    /\ sse.esState \in {"connecting", "open"}
    /\ LET retry == sse.attached = sse.es /\ sse.attempts < MAX_RECONNECT_ATTEMPTS
           giveUp == sse.attached = sse.es /\ ~(sse.attempts < MAX_RECONNECT_ATTEMPTS)
       IN  sse' = [sse EXCEPT
                     !.es = Null, !.esState = "none",
                     !.fails = @ + 1,
                     !.timer = IF retry THEN sse.es ELSE @,
                     !.delay = IF retry THEN ReconnectDelay(sse.attempts) ELSE @,
                     !.attempts = IF retry THEN @ + 1 ELSE @,
                     !.lost = IF giveUp THEN TRUE ELSE @]
    /\ UNCHANGED <<view, att, srv, othersClient>>

\* the reconnect timeout fires: startStream(streamRunId, true) when
\* attachedRunIdRef is still the stream's run
TimerFire ==
    /\ sse.timer # Null
    /\ sse' = IF sse.attached = sse.timer THEN StartStream(sse, sse.timer, TRUE)
              ELSE [sse EXCEPT !.timer = Null, !.delay = 0]
    /\ UNCHANGED <<view, att, srv, othersClient>>

\* the stream's reconnection: runs are attached and deleted, connections
\* open and fail, no event is emitted
NextReconnect ==
    \/ \E r \in ClientRuns : AttachToRun(r)
    \/ \E r \in ClientRuns : AttachStatusLoaded(r)
    \/ \E r \in ClientRuns : AttachMessagesLoaded(r)
    \/ \E r \in ClientRuns : AttachEventsLoaded(r)
    \/ \E r \in ClientRuns : DeleteRun(r)
    \/ EsOpen
    \/ EsError
    \/ TimerFire

\* attaching to runs while they emit their events, over connections that
\* stay up
NextAttach ==
    \/ \E r \in ClientRuns : AttachToRun(r)
    \/ \E r \in ClientRuns : AttachStatusLoaded(r)
    \/ \E r \in ClientRuns : AttachMessagesLoaded(r)
    \/ \E r \in ClientRuns : AttachEventsLoaded(r)
    \/ \E r \in ClientRuns : ServerEmit(r)
    \/ EsOpen
    \/ EsEvent

----------------------------------------------------------------------------
(* Specifications *)

Init ==
    /\ MsgInit
    /\ EmitInit
    /\ StreamInit
    /\ CancelInit
    /\ ToolInit
    /\ TriggerInit
    /\ DispatchInit
    /\ HookInit
    /\ ApiInit
    /\ FaultInit
    /\ AgentsInit
    /\ ClientInit

SpecMsg == Init /\ [][NextMsg]_vars

SpecEmit == Init /\ [][NextEmit]_vars

SpecStream == Init /\ [][NextStream]_vars

SpecCancel == Init /\ [][NextCancel]_vars

SpecTool == Init /\ [][NextTool]_vars

SpecTrigger == Init /\ [][NextTrigger]_vars

SpecHook == Init /\ [][NextHook]_vars

\* the run's lifecycle and its cancellation together with the submission of
\* a result for the run's client tool call
NextResume ==
    \/ RunStart
    \/ RunWaitTool
    \/ RunResume
    \/ RunComplete
    \/ RunFail
    \/ \E k \in Cancels : CancelFind(k)
    \/ \E k \in Cancels : CancelUpdate(k)
    \/ \E k \in Cancels : CancelEmit(k)
    \/ \E t \in {"t1", "t3"}, k \in ClientIds : SubmitFindRun("u1", "r1", t, "ok", Null, k)
    \/ SubmitUpsert("u1")
    \/ SubmitUpdateCall("u1")
    \/ SubmitFindCall("u1")
    \/ SubmitMessage("u1")
    \/ SubmitSpaceMessage("u1")
    \/ SubmitRunEvent1("u1")
    \/ SubmitRunEvent2("u1")
    \/ SubmitFinish("u1")

SpecResume == Init /\ [][NextResume]_vars

SpecApi == Init /\ [][NextApi]_vars

SpecStreamFault == Init /\ [][NextStreamFault]_vars

SpecAgents == Init /\ [][NextAgents]_vars

\* the stream handler over the life of one connection, from the request to
\* after the client has left, with the keep-alive timer and without
\* reconnections: each request has its own isActive, subscriber and
\* interval, and requests share only the run's stream and channel
LifeConns == {1}

NextStreamLife ==
    \/ \E t \in {"text.delta"} : RunXAdd(t)
    \/ RunPublish
    \/ \E c \in LifeConns : StreamConnect(c)
    \/ \E c \in LifeConns : StreamFindRun(c)
    \/ \E c \in LifeConns : StreamTail(c)
    \/ \E c \in LifeConns : StreamReplayRead(c)
    \/ \E c \in LifeConns : StreamReplayWrite(c)
    \/ \E c \in LifeConns : StreamSubscribe(c)
    \/ \E c \in LifeConns : StreamArm(c)
    \/ \E c \in LifeConns : StreamOnMessage(c)
    \/ \E c \in LifeConns : StreamXRead(c)
    \/ \E c \in LifeConns : StreamReadReturn(c)
    \/ \E c \in LifeConns : StreamKeepAlive(c)
    \/ \E c \in LifeConns : StreamClose(c)

\* a handler that has started runs on to its end, a notification is
\* delivered, a read is answered and the timer fires; nothing makes a
\* client connect or close
StreamHandlers ==
    \/ RunPublish
    \/ \E c \in LifeConns : StreamFindRun(c)
    \/ \E c \in LifeConns : StreamTail(c)
    \/ \E c \in LifeConns : StreamReplayRead(c)
    \/ \E c \in LifeConns : StreamReplayWrite(c)
    \/ \E c \in LifeConns : StreamSubscribe(c)
    \/ \E c \in LifeConns : StreamArm(c)
    \/ \E c \in LifeConns : StreamOnMessage(c)
    \/ \E c \in LifeConns : StreamXRead(c)
    \/ \E c \in LifeConns : StreamReadReturn(c)
    \/ \E c \in LifeConns : StreamKeepAlive(c)

SpecReconnect == Init /\ [][NextReconnect]_vars

SpecAttach == Init /\ [][NextAttach]_vars

SpecStreamLife == Init /\ [][NextStreamLife]_vars /\ WF_vars(StreamHandlers)

\* a handler or a dispatch that has started runs on to its end; nothing makes
\* a client connect, register, ping or close, and nothing makes a key expire
DispatchHandlers ==
    \/ \E w \in Socks : WsRegisterSet(w)
    \/ \E w \in Socks : WsRegisterPresence(w)
    \/ \E w \in Socks : WsClosePresence(w)
    \/ DispatchSend
    \/ DispatchInbox

SpecDispatch == Init /\ [][NextDispatch]_vars /\ WF_vars(DispatchHandlers)

Next ==
    \/ NextMsg
    \/ NextEmit
    \/ NextStream
    \/ NextCancel
    \/ NextTool
    \/ NextTrigger
    \/ NextDispatch
    \/ NextHook
    \/ NextResume
    \/ NextApi
    \/ NextStreamFault
    \/ NextAgents
    \/ NextStreamLife
    \/ NextReconnect
    \/ NextAttach

Spec == Init /\ [][Next]_vars

----------------------------------------------------------------------------
(* Claims *)

\* C1: for every SmartSpace, whatever the interleaving of concurrent
\* createSmartSpaceMessage calls, the stored seq values are exactly
\* 1..count: no two stored messages of the scope share a seq, no gaps.
C1_GaplessMessageSeqs ==
    \A s \in Spaces :
        LET rows == {i \in 1..Len(messages) : messages[i].smartSpaceId = s}
        IN /\ \A i, j \in rows : messages[i].seq = messages[j].seq => i = j
           /\ {messages[i].seq : i \in rows} = 1..Cardinality(rows)

\* two concurrent calls computed the same next seq on one scope; one is
\* stored, the other hit the unique index, and a later message is stored
C1_Witness ==
    \E c1, c2 \in Callers :
        /\ c1 # c2
        /\ tx[c1].pc = "done" /\ tx[c2].pc = "failed"
        /\ tx[c1].space = tx[c2].space /\ tx[c1].nextSeq = tx[c2].nextSeq
        /\ Cardinality(SpaceSeqs(tx[c1].space)) >= 2

\* C10: a failed append does not advance the scope's sequence counter, so
\* once no emit is in flight the seqs present in the stream are exactly
\* 1..n and the counter equals the number of appended events.
C10_NoBurnedSeq ==
    (\A e \in Emitters : emit[e].pc \in {"idle", "done", "failed"}) =>
        \A s \in Spaces :
            /\ {ev.seq : ev \in Range(spaceStream[s])} = 1..Len(spaceStream[s])
            /\ seqCounter[s] = Len(spaceStream[s])

\* nothing is in flight for connection c: it is subscribed and armed, every
\* notification was handled and every read answered
Quiescent(c) ==
    /\ conn[c].pc = "live" /\ conn[c].open
    /\ conn[c].notif = 0 /\ conn[c].reads = <<>>
    /\ pubPending = 0

\* C2: a connection opened with since=K (or Last-Event-ID=K) after a
\* disconnect gets every event appended after K exactly once and in stream
\* order: once nothing is in flight, what was written is K+1..tail.
C2_ResumeExactlyOnce ==
    \A c \in Conns :
        (conn[c].resumed /\ Quiescent(c)) =>
            conn[c].written = Ids(conn[c].startId + 1, Len(runStream))

\* C3: within one connection the ids written are strictly increasing.
C3_WrittenIncreasing ==
    \A c \in Conns :
        \A i, j \in 1..Len(conn[c].written) :
            i < j => conn[c].written[i] < conn[c].written[j]

\* C4: every event appended after the connection's start point was
\* determined is delivered on that connection: once nothing is in flight, no
\* id after the start point is missing from what was written.
C4_NothingMissed ==
    \A c \in Conns :
        Quiescent(c) =>
            \A id \in (conn[c].startPoint + 1)..Len(runStream) : id \in Range(conn[c].written)

\* C8: a cancel request that finds the run completed, failed or canceled
\* answers success with that status and changes nothing: the run row
\* (status, completedAt) and the streams are as before.
C8_TerminalCancelNoop ==
    [][\A k \in Cancels :
          (cancel[k].pc = "idle" /\ cancel'[k].pc # "idle" /\ run.status \in Terminal) =>
              /\ run' = run
              /\ runStream' = runStream
              /\ spaceStream' = spaceStream
              /\ cancel'[k] = [pc |-> "done", resp |-> [success |-> TRUE, status |-> run.status]]
      ]_vars

\* a cancel was answered on a run that had failed earlier, and the row still
\* carries the failure's completedAt
C8_Witness ==
    \E k \in Cancels :
        /\ cancel[k].pc = "done"
        /\ cancel[k].resp = [success |-> TRUE, status |-> "failed"]
        /\ run.status = "failed"
        /\ "run.canceled" \notin Range(runStream)

\* C9: once the run's status is completed, failed or canceled it never
\* changes again.
C9_TerminalAbsorbing ==
    [][run.status \in Terminal => run'.status = run.status]_vars

\* C5: submitting a result for the same (runId, callId) more than once
\* invokes run execution for that call at most once.
C5_ResumeAtMostOnce ==
    \A t \in CallIds :
        Cardinality({i \in 1..Len(execLog) : execLog[i].callId = t}) <= 1

\* C6: there is at most one ToolResult per (runId, callId), and it holds what
\* the latest submission for the pair carried: its result (an absent result
\* is stored as {}), its source (an absent source is stored as client when a
\* clientId came with it, else server) and its clientId.
C6_OneResultLatestWins ==
    \A t \in CallIds :
        LET rows == {i \in 1..Len(toolResults) :
                        toolResults[i].runId = "r1" /\ toolResults[i].callId = t}
        IN /\ Cardinality(rows) <= 1
           /\ lastSub[t].any = (rows # {})
           /\ \A i \in rows :
                 /\ toolResults[i].result = IF lastSub[t].result = Null THEN "{}"
                                            ELSE lastSub[t].result
                 /\ toolResults[i].source =
                        IF lastSub[t].source # Null THEN lastSub[t].source
                        ELSE IF lastSub[t].clientId # Null THEN "client" ELSE "server"
                 /\ toolResults[i].clientId = lastSub[t].clientId

\* two submissions for one call, with different results and clientIds, have
\* both been upserted and one row is stored
C6_Witness ==
    \E u, v \in Subs :
        /\ u # v
        /\ sub[u].runId = "r1" /\ sub[v].runId = "r1"
        /\ sub[u].callId = sub[v].callId
        /\ sub[u].result # sub[v].result /\ sub[u].clientId # sub[v].clientId
        /\ sub[u].pc \in {"update", "findCall"}
        /\ sub[v].pc \in {"update", "findCall"}
        /\ Len(toolResults) = 1

NAgents == Cardinality({e \in Members : EntityType(e) = "agent"})

RECURSIVE Pow(_, _)
Pow(b, n) == IF n = 0 THEN 1 ELSE b * Pow(b, n - 1)

C11_StreamOrderAgreesWithSeq ==
    \A s \in Spaces :
        \A i, j \in 1..Len(spaceStream[s]) :
            i < j => spaceStream[s][i].seq < spaceStream[s][j].seq

\* C12: a createSmartSpaceMessage call whose insert hits the uniqueness
\* conflict is retried with a freshly computed seq, so no call ends with an
\* error: every call that has ended has stored its message.
C12_ConflictRetried ==
    \A c \in Callers : tx[c].pc # "failed"

\* C13: the notification of an event is published only after the event is in
\* the scope's stream, and a failing publish does not fail the write: no call
\* whose event is in the stream ends with an error.
C13_PublishAfterWriteNeverFails ==
    /\ \A s \in Spaces : Range(notifyLog[s]) \subseteq Range(spaceStream[s])
    /\ \A e \in Emitters :
          emit[e].pc = "failed" =>
              \A ev \in Range(spaceStream[emit[e].space]) : ev.seq # emit[e].seq

\* C16: a triggerAgentsInSmartSpace call that returns its createdRuns has
\* created exactly one run per agent-type member other than the sender; no
\* run is ever created for the sender itself or for a non-agent member, and
\* every run is created with status queued and triggeredBy the sender.
C16_OneRunPerOtherAgent ==
    /\ [](\A i \in 1..Len(runs) :
            /\ EntityType(runs[i].agentEntityId) = "agent"
            /\ runs[i].agentEntityId # runs[i].triggeredById
            /\ runs[i].status = "queued")
    /\ [][\A g \in TrigCalls :
            (trig[g].pc = "create" /\ trig[g].todo = <<>> /\ trig'[g].pc = "idle") =>
                LET cr == trig[g].createdRuns
                    others == {e \in Members : EntityType(e) = "agent" /\ e # trig[g].sender}
                IN /\ \A e \in others :
                         Cardinality({j \in 1..Len(cr) : runs[cr[j]].agentEntityId = e}) = 1
                   /\ \A j \in 1..Len(cr) :
                         /\ runs[cr[j]].agentEntityId \in others
                         /\ runs[cr[j]].triggeredById = trig[g].sender
                         /\ runs[cr[j]].status = "queued"
       ]_vars

\* a call whose sender is agent A, in a space that also holds a human and
\* agent B, is about to return: it created one run, for B
C16_Witness ==
    \E g \in TrigCalls :
        /\ trig[g].pc = "create" /\ trig[g].todo = <<>>
        /\ trig[g].sender = "A"
        /\ Len(trig[g].createdRuns) = 1
        /\ runs[trig[g].createdRuns[1]].agentEntityId = "B"

\* C17: when creating or announcing the run of one agent member fails, the
\* runs of the remaining agent members are still created and started and the
\* coordinator call does not fail.
C17_FailureIsolated ==
    \A g \in TrigCalls : trig[g].pc # "failed"

Count(seq, x) == Cardinality({i \in 1..Len(seq) : seq[i] = x})

SpaceTypes(space) == [i \in 1..Len(spaceStream[space]) |-> spaceStream[space][i].type]

\* C18: a cancellation emits exactly one event into the run's own stream and
\* exactly one into the owning SmartSpace's stream: once no cancel request is
\* in flight both streams hold the same number of run.canceled events.
C18_LifecycleInBothScopes ==
    (\A k \in Cancels : cancel[k].pc \in {"idle", "done"}) =>
        Count(runStream, "run.canceled") = Count(SpaceTypes(RunSpace), "run.canceled")

\* the tool call was sent over a socket that has closed since
SentThenDisconnected ==
    \E w \in Socks : DispatchCall \in Range(wsOut[w]) /\ socks[w].state = "closed"

\* C19: when a tool call was dispatched to a connection that then
\* disconnects and no result is submitted, the run leaves waiting_tool only
\* with the call's expiry, and the expiry comes: eventually the ToolCall is
\* expired and the run failed.
C19_ExpiresAfterDisconnect ==
    /\ [][(run.status = "waiting_tool" /\ run'.status # "waiting_tool") =>
             (toolCalls'[DispatchCall].status = "expired" /\ run'.status = "failed")]_vars
    /\ SentThenDisconnected ~>
           (toolCalls[DispatchCall].status = "expired" /\ run.status = "failed")

\* the position of a ToolCall status on requested -> dispatched ->
\* completed | failed | expired
StatusRank(status) ==
    IF status = "requested" THEN 0 ELSE IF status = "dispatched" THEN 1 ELSE 2

\* C20: a ToolCall's status only moves forward along requested ->
\* dispatched -> completed | failed | expired, and a call that is completed,
\* failed or expired keeps that status whatever is submitted later.
C20_CallStatusForwardOnly ==
    [][\A t \in CallIds :
          toolCalls[t].exists =>
              /\ StatusRank(toolCalls'[t].status) >= StatusRank(toolCalls[t].status)
              /\ toolCalls[t].status \in {"completed", "failed", "expired"} =>
                     toolCalls'[t].status = toolCalls[t].status
      ]_vars

\* the hook's stream is open and nothing is in flight: the connection is
\* quiescent, every written event was handed to the listener and no
\* hydration is under way
HookQuiet ==
    /\ Quiescent(HookConn)
    /\ hook.es = "open" /\ hook.read = Len(conn[HookConn].written)
    /\ hook.pc = "done"

\* C14: after an SSE failure the hook's new connection resumes from the last
\* event the hook delivered: once nothing is in flight, every event that was
\* published between the failure (onerror) and the new connection reaching
\* the gateway has been processed exactly once.
C14_ReconnectResumes ==
    (hook.reconnects > 0 /\ HookQuiet) =>
        \A id \in (hook.downAt + 1)..hook.upAt : Count(processed, id) = 1

\* C15: attachToRun applies every event of the run exactly once, from the
\* replayed history or from the buffered live stream: once the hydration is
\* over and nothing is in flight, every event was processed exactly once.
C15_AttachExactlyOnce ==
    (hook.mode = "attach" /\ hook.reconnects = 0 /\ HookQuiet) =>
        \A id \in 1..Len(runStream) : Count(processed, id) = 1

\* the Client rows with a clientKey, and the registry entries of a client
RowsOfKey(key) == {i \in 1..Len(clients) : clients[i].clientKey = key}
EntriesOf(k) == {p \in clientConnections : p[1] = k}

\* C21: whatever number of times a clientKey registers, there is one Client
\* row with that key and one registry entry for its client; a registration
\* leaves the row's lastSeenAt at the time of the registration, adds no row
\* when one exists, and leaves the registering socket as the stored one.
C21_RegisterIdempotent ==
    /\ [](\A key \in ClientKeys :
            /\ Cardinality(RowsOfKey(key)) <= 1
            /\ Cardinality(EntriesOf(ClientIdOf(key))) <= 1)
    /\ [][\A w \in Socks :
            /\ (socks[w].pc = "idle" /\ socks'[w].pc = "set") =>
                   /\ \A i \in 1..Len(clients') :
                          clients'[i].clientKey = socks'[w].key => clients'[i].lastSeenAt = now
                   /\ RowsOfKey(socks'[w].key) # {} => Len(clients') = Len(clients)
            /\ (socks[w].pc = "set" /\ socks'[w].pc = "presence") =>
                   MapGet(clientConnections', ClientIdOf(socks[w].key)) = w
         ]_vars

\* both sockets have registered the same clientKey, the second after the first
C21_Witness ==
    /\ socks["w1"].clientConnection = "k1" /\ socks["w2"].clientConnection = "k1"
    /\ socks["w1"].state = "open" /\ socks["w2"].state = "open"
    /\ Len(clients) = 1 /\ clients[1].lastSeenAt >= 2
    /\ MapGet(clientConnections, "k1") = "w2"

\* socket w is the registered connection of its client, is still open, and
\* has sent no ping for the lifetime of the presence key
Stale(w) ==
    /\ socks[w].state = "open" /\ socks[w].clientConnection # Null
    /\ MapGet(clientConnections, socks[w].clientConnection) = w
    /\ presence[socks[w].clientConnection] = "expired"

\* the call was sent over socket w, and it was dispatched a second time
SentOver(w) == \E i \in 1..Len(wsOut[w]) : wsOut[w][i] = DispatchCall
Redispatched == Count(clientInbox[DispatchClient], DispatchCall) >= 2

\* C22: a registered connection that sends no ping within the liveness
\* timeout is eventually removed from the registry, and a tool call that was
\* dispatched to it and is still unresolved is then dispatched again or
\* marked failed.
C22_StaleConnectionRemoved ==
    \A w \in Socks :
        Stale(w) ~>
            /\ MapGet(clientConnections, DispatchClient) # w
            /\ (SentOver(w) /\ toolCalls[DispatchCall].status = "dispatched") => Redispatched

\* the dispatch has returned
Dispatched == dsp.pc = "done"

\* C23: a dispatched tool call reaches its target through exactly one path,
\* the WebSocket when the client had a live connection and the Redis inbox
\* when it had none.
C23_ExactlyOnePath ==
    Dispatched =>
        (\E w \in Socks : SentOver(w)) # (Count(clientInbox[DispatchClient], DispatchCall) > 0)

\* some cancel request was answered with status canceled, and none is in flight
CancelAnswered ==
    /\ \A k \in Cancels : cancel[k].pc \in {"idle", "done"}
    /\ \E k \in Cancels : cancel[k].pc = "done" /\ cancel[k].resp.status = "canceled"

\* C28: cancelling a queued, running or waiting_tool run leaves it canceled
\* with completedAt set and emits exactly one run.canceled event, also when
\* two cancel requests run concurrently.
C28_OneCanceledEvent ==
    CancelAnswered =>
        /\ run.status = "canceled" /\ run.completedAt > 0
        /\ Count(runStream, "run.canceled") = 1

\* the emitSmartSpaceEvent calls that have taken a seq in a SmartSpace
EmittedIn(s) == {e \in Emitters : emit[e].pc # "idle" /\ emit[e].space = s}

\* C26: events emitted into one SmartSpace never change another SmartSpace's
\* counter, stream or notifications; a SmartSpace's counter counts its own
\* emissions, the k-th of them gets seq k, and its stream holds only events
\* emitted into it.
C26_ScopesIndependent ==
    /\ [](\A s \in Spaces :
            /\ seqCounter[s] = Cardinality(EmittedIn(s))
            /\ {emit[e].seq : e \in EmittedIn(s)} = 1..seqCounter[s]
            /\ \A i \in 1..Len(spaceStream[s]) :
                   \E e \in EmittedIn(s) : /\ emit[e].seq = spaceStream[s][i].seq
                                            /\ emit[e].type = spaceStream[s][i].type)
    /\ [][\A e \in Emitters :
            emit'[e] # emit[e] =>
                /\ \A s \in Spaces \ {emit'[e].space} :
                       /\ seqCounter'[s] = seqCounter[s]
                       /\ spaceStream'[s] = spaceStream[s]
                       /\ notifyLog'[s] = notifyLog[s]
                /\ emit[e].pc = "idle" =>
                       emit'[e].seq = Cardinality(EmittedIn(emit'[e].space)) + 1
         ]_vars

\* both SmartSpaces hold events, numbered from 1 each
C26_Witness ==
    /\ Len(spaceStream["s1"]) = 1 /\ spaceStream["s1"][1].seq = 1
    /\ Len(spaceStream["s2"]) = 2 /\ spaceStream["s2"][2].seq = 2

\* C30: submitToolResult resumes execution only for a call whose
\* executionTarget is not server, and only after the ToolResult is stored,
\* the ToolCall is marked completed, and the tool.result and message.tool run
\* events and the tool.result SmartSpace event of the submission are emitted.
C30_ResumeAfterEverythingStored ==
    [][Len(execLog') > Len(execLog) =>
          LET c == execLog'[Len(execLog')].callId
              r == execLog'[Len(execLog')].runId
          IN  /\ toolCalls'[c].exists /\ toolCalls'[c].target \notin {Null, "server"}
              /\ HasRow(toolResults', r, c)
              /\ toolCalls'[c].status = "completed"
              /\ Len(execLog') <= Count(runStream', "tool.result")
              /\ Len(execLog') <= Count(runStream', "message.tool")
              /\ Len(execLog') <=
                     Count([i \in 1..Len(spaceStream'[RunSpace]) |->
                               spaceStream'[RunSpace][i].type], "tool.result")
      ]_vars

\* a result for the client call t1 was submitted and execution was resumed
\* for it, and a result for the server call t2 was submitted as well
C30_Witness ==
    /\ Len(execLog) = 1 /\ execLog[1].callId = "t1"
    /\ HasRow(toolResults, "r1", "t1") /\ HasRow(toolResults, "r1", "t2")
    /\ toolCalls["t2"].status = "completed"
    /\ \A u \in Subs : sub[u].pc = "done"

\* C29: a tool result submitted for a run that is already completed, failed
\* or canceled does not start the run's execution again: executeRun is
\* invoked only while the run is not terminal.
C29_NoResumeOfTerminalRun ==
    [][Len(execLog') > Len(execLog) => run.status \notin Terminal]_vars

\* C24: a caller authorized for one SmartSpace is not served the stream or
\* the events of a run of another SmartSpace, and can neither submit tool
\* results to it nor cancel it.
C24_NoCrossSpaceAccess ==
    (req.pc = "served" /\ req.granted /\ req.auth.smartSpaceId # Null) =>
        SpaceOfRun(req.runId) = req.auth.smartSpaceId

\* C25: an error while delivering events to one stream subscriber, in the
\* initial replay or in a later notification-driven read, ends that
\* subscriber's connection with an error event and leaves the run's stream
\* and every other subscriber as they were.
C25_StreamErrorIsolated ==
    [][\A c \in Conns :
          (fault[c] = "none" /\ fault'[c] # "none") =>
              /\ fault'[c] = "error event" /\ ~conn'[c].open
              /\ \A d \in Conns \ {c} : conn'[d] = conn[d]
              /\ runStream' = runStream
      ]_vars

C31_DepthGuardAndMetadata ==
    [][/\ \A e \in Members, d \in 0..(DefaultMaxDepth + 1) :
             (inbox'[e, d] < inbox[e, d] /\ d >= DefaultMaxDepth) =>
                 /\ runs' = runs /\ trig' = trig
                 /\ spaceStream' = spaceStream /\ seqCounter' = seqCounter
                 /\ notifyLog' = notifyLog
       /\ Len(runs') > Len(runs) =>
             \E g \in TrigCalls :
                 /\ trig[g].pc = "create" /\ trig'[g].pc = "announce"
                 /\ trig[g].depth < DefaultMaxDepth
                 /\ Len(runs') = Len(runs) + 1
                 /\ runs'[Len(runs')].triggerDepth = trig[g].depth + 1
      ]_vars

\* the cascade went on until a call arrived at the maximum depth and was
\* turned away
C31_Witness ==
    /\ skipped > 0
    /\ \E i \in 1..Len(runs) : runs[i].triggerDepth = DefaultMaxDepth
    /\ \E i \in 1..Len(runs) : runs[i].triggerDepth = 1

\* C32: a submitToolResult that throws because the run does not exist or
\* because no ToolCall has its (runId, callId) has changed nothing: no
\* ToolResult row is stored for it, no ToolCall is changed, no message is
\* written, no event is emitted and the run is not resumed; it throws
\* before its first write.
C32_FailedSubmitLeavesNothing ==
    [][\A u \in Subs :
          (sub'[u].pc = "failed" /\ sub'[u] # sub[u]) =>
              /\ sub[u].pc \in {"idle", "done", "failed", "upsert"}
              /\ toolResults' = toolResults /\ toolCalls' = toolCalls
              /\ messages' = messages /\ execLog' = execLog
              /\ runStream' = runStream /\ spaceStream' = spaceStream
              /\ seqCounter' = seqCounter /\ notifyLog' = notifyLog
              /\ ~HasRow(toolResults', "r0", "t1")
              /\ \A r \in RunIds : ~HasRow(toolResults', r, "t3")
      ]_vars

\* one submission has thrown for an unknown run and another for a call
\* that has no ToolCall
C32_Witness ==
    \E u, v \in Subs :
        /\ sub[u].pc = "failed" /\ sub[u].error = "Run not found"
        /\ sub[v].pc = "failed" /\ sub[v].error = "Foreign key constraint failed"

\* C33: a socket's close removes only its own registration: when the
\* registry maps the client to another socket, a close of this socket
\* leaves that entry and the client's presence as they are.
C33_CloseRemovesOnlyOwn ==
    [][\A w \in Socks, k \in RegClients :
          (/\ socks'[w].state # socks[w].state
           /\ socks'[w].state \in {"closing", "closed"}
           /\ MapGet(clientConnections, k) \notin {Null, w}) =>
              /\ MapGet(clientConnections', k) = MapGet(clientConnections, k)
              /\ presence'[k] = presence[k]
      ]_vars

\* C40: on a route mounted with requireAuth a request goes through when any
\* credential it carries authenticates it (the admin key, the secret key,
\* or the public key with its JWT), and it is answered 401 only when none
\* of them does.
C40_AnyCredentialAuthenticates ==
    (req.pc \in {"handler", "served", "rejected"} /\ req.route # "cancel") =>
        LET any == \/ RequireGatewayAdmin(req.headers).ok
                   \/ RequireSecretKey(req.headers).ok
                   \/ RequirePublicKeyJWT(req.headers).ok
        IN  /\ any => req.pc # "rejected"
            /\ (req.pc = "rejected" /\ req.status = 401) => ~any

\* C34: every subscriber created for a run stream connection is in the end
\* unsubscribed and closed once the client has disconnected, whenever the
\* disconnect comes: from some point on a connection the client has left
\* has no subscription.
C34_SubscriberReleased ==
    \A c \in Conns : <>[](~conn[c].open => ~conn[c].subscribed)

C36_BoundedBackoff ==
    [][/\ sse'.fails = sse.fails + 1 =>
             IF sse.fails < 5
             THEN /\ sse'.timer # Null
                  /\ sse'.delay = 1000 * Pow(2, sse.fails)
                  /\ sse'.lost = sse.lost
             ELSE sse'.timer = Null /\ sse'.lost
       /\ (sse.esState = "connecting" /\ sse'.esState = "open") => sse'.attempts = 0
       /\ (/\ sse.timer # Null /\ sse'.timer = Null /\ att' = att
           /\ sse.esState = "none" /\ sse'.esState = "connecting") =>
              sse.attached = sse.timer
      ]_vars

\* five retries in a row have failed and the hook has given up
C36_Witness == sse.lost /\ sse.fails = 6 /\ sse.timer = Null /\ sse.attempts = 5

\* C37: once attachToRun(B) has been called nothing of a run attached
\* before it is applied to the hook's state: every message in the list
\* belongs to the run of the latest attachToRun call, and no event of
\* another run is processed (no draft made for it, no tool of it run).
C37_NothingOfThePreviousRun ==
    [][/\ \A i \in 1..Len(view'.messages) : view'.messages[i].run = sse'.runId
       /\ \A r \in ClientRuns :
             view'.executed[r] > view.executed[r] => r = sse'.runId
      ]_vars

\* C38: the messages list never holds two messages with the same id.
C38_UniqueMessageIds ==
    \A i, j \in 1..Len(view.messages) :
        view.messages[i].id = view.messages[j].id => i = j

\* C39: a browser tool call is executed at most once, and not at all once
\* the run has its result.
C39_ToolExecutedOnce ==
    [][\A r \in ClientRuns :
          view'.executed[r] > view.executed[r] =>
              /\ view.executed[r] = 0
              /\ ~(\E k \in 1..srv[r] : Script(r)[k] = "tool.result")
      ]_vars

====
